---- MODULE Spec2Model ----
(***************************************************************************)
(* MiFIR RTS 22 mapping-and-generation core.                               *)
(*                                                                         *)
(*   custom_fields.py            CustomFieldManager (the custom registry)  *)
(*   mifir_xml_generator.py      MiFIRXMLGenerator (the report assembler)  *)
(*   custom_only_xml_generator.py CustomOnlyXMLGenerator                   *)
(*   auto_mapper.py              AutoMapper (the mapping suggester)        *)
(*                                                                         *)
(* Python strings are TLA+ strings; a character is a string of length 1.   *)
(* An XML element is a record [tag, text, attrs, kids].                    *)
(***************************************************************************)
EXTENDS Integers, Sequences, FiniteSets, TLC

VARIABLES
    custom_fields,   \* CustomFieldManager.custom_fields: the registry's list
    lastOp,          \* the last registry call: its name, argument, result, and the list before it
    df,              \* generate_xml's df: the rows of the DataFrame
    field_mappings,  \* generate_xml's field_mappings
    constants,       \* generate_xml's constants
    manager_given,   \* whether generate_xml was passed a custom_field_manager
    now,             \* the last reading of datetime.now()
    pc,              \* where generate_xml stands: "idle", "header", "rows", "done"
    hdr,             \* None, or Some(the Hdr element) once _add_header has run
    txs,             \* the children of FinInstrmRptgTxRpt appended so far
    reads,           \* per appended child: the clock reading it was built with
    hash_seed,       \* the seed of str hashing in this process (PYTHONHASHSEED)
    result,          \* None, or Some(the document generate_xml returned)
    suggestions,     \* auto_suggest_mappings' suggestions: field name -> column name
    mapper_pc,       \* where auto_suggest_mappings stands: "idle", "names", "content",
                     \* "logic", "returned"
    cursor,          \* how many iterations of the current pass's loop have run
    call,            \* None, or Some(a call of a helper on its own: its name and arguments)
    returned         \* None, or Some(what that call returned)

regVars == <<custom_fields, lastOp>>

genVars == <<df, field_mappings, constants, manager_given, now, pc, hdr, txs, reads,
            hash_seed, result>>

autoVars == <<suggestions, mapper_pc, cursor>>

callVars == <<call, returned>>

vars == <<custom_fields, lastOp, df, field_mappings, constants, manager_given, now, pc,
          hdr, txs, reads, hash_seed, result, suggestions, mapper_pc, cursor, call,
          returned>>

(***************************************************************************)
(* Bounds of the model.                                                    *)
(***************************************************************************)
\* longest registry list that add_custom_field is exercised on
MaxFields == 2

(***************************************************************************)
(* Characters and strings (Python str).                                    *)
(***************************************************************************)
UpperAZ == "ABCDEFGHIJKLMNOPQRSTUVWXYZ"

LowerAZ == "abcdefghijklmnopqrstuvwxyz"

Digits09 == "0123456789"

\* str.strip() removes these
WhitespaceChars == " \t\n\r"

\* TLC keeps only 7-bit characters intact in the states it stores, so the two
\* letters outside ASCII that the inputs use are written with stand-ins: the
\* tilde is the letter e with acute accent (U+00E9), the caret its capital
\* (U+00C9).  For both, Python's isalpha() and isalnum() are true.
SmallEAcute == "~"

CapitalEAcute == "^"

\* ASCII punctuation (the backquote and the two stand-ins left out)
AsciiPunct == "_-!#$%&'()+,./:;<=>?@[]{|}*\"\\"

CharAt(s, i) == SubSeq(s, i, i)

CharsOf(s) == { CharAt(s, i) : i \in 1..Len(s) }

UpperSet == CharsOf(UpperAZ)

LowerSet == CharsOf(LowerAZ)

DigitSet == CharsOf(Digits09)

WhitespaceSet == CharsOf(WhitespaceChars)

AsciiSet == UpperSet \cup LowerSet \cup DigitSet \cup WhitespaceSet \cup CharsOf(AsciiPunct)

IsAsciiUpper(c) == c \in UpperSet

IsAsciiLower(c) == c \in LowerSet

IsAsciiDigit(c) == c \in DigitSet

IsAscii(c) == c \in AsciiSet

\* str.isalpha() and str.isalnum() are Unicode-aware: they accept the
\* accented letters
IsNonAsciiLetter(c) == c \in {SmallEAcute, CapitalEAcute}

\* c.isalpha() for one character
IsAlpha(c) == IsAsciiUpper(c) \/ IsAsciiLower(c) \/ IsNonAsciiLetter(c)

\* c.isalnum() for one character
IsAlnum(c) == IsAlpha(c) \/ IsAsciiDigit(c)

\* s.isalnum(): false for the empty string
StrIsAlnum(s) == Len(s) > 0 /\ \A i \in 1..Len(s) : IsAlnum(CharAt(s, i))

\* the upper-case form of each lower-case letter, and back
UpperOf ==
    [ c \in LowerSet \cup {SmallEAcute} |->
        IF c = SmallEAcute THEN CapitalEAcute
        ELSE CharAt(UpperAZ, CHOOSE i \in 1..Len(LowerAZ) : CharAt(LowerAZ, i) = c) ]

LowerOf ==
    [ c \in UpperSet \cup {CapitalEAcute} |->
        IF c = CapitalEAcute THEN SmallEAcute
        ELSE CharAt(LowerAZ, CHOOSE i \in 1..Len(UpperAZ) : CharAt(UpperAZ, i) = c) ]

UpperChar(c) == IF c \in DOMAIN UpperOf THEN UpperOf[c] ELSE c

LowerChar(c) == IF c \in DOMAIN LowerOf THEN LowerOf[c] ELSE c

RECURSIVE StrUpper(_)
\* s.upper()
StrUpper(s) == IF s = "" THEN "" ELSE UpperChar(Head(s)) \o StrUpper(Tail(s))

RECURSIVE StrLower(_)
\* s.lower()
StrLower(s) == IF s = "" THEN "" ELSE LowerChar(Head(s)) \o StrLower(Tail(s))

RECURSIVE RemoveChar(_, _)
\* s.replace(c, '')
RemoveChar(s, c) ==
    IF s = "" THEN ""
    ELSE (IF Head(s) = c THEN "" ELSE Head(s)) \o RemoveChar(Tail(s), c)

RECURSIVE LStrip(_)
LStrip(s) ==
    IF s = "" THEN ""
    ELSE IF Head(s) \in WhitespaceSet THEN LStrip(Tail(s)) ELSE s

RECURSIVE RStrip(_)
RStrip(s) ==
    IF s = "" THEN ""
    ELSE IF CharAt(s, Len(s)) \in WhitespaceSet
         THEN RStrip(SubSeq(s, 1, Len(s) - 1)) ELSE s

\* s.strip()
Strip(s) == RStrip(LStrip(s))

\* s[:n]
Prefix(s, n) == IF Len(s) <= n THEN s ELSE SubSeq(s, 1, n)

(***************************************************************************)
(* custom_fields.py: CustomField, CustomFieldManager.                      *)
(*                                                                         *)
(* An Optional value is <<>> (None) or <<v>>.  An enum member is written   *)
(* by its member name ("STRING"); its .value is the lower-case token.      *)
(***************************************************************************)
None == <<>>

Some(v) == <<v>>

CustomFieldCategory == {"REQUIRED", "CONDITIONAL", "OPTIONAL", "CONSTANT"}

CustomFieldType == {"STRING", "DECIMAL", "INTEGER", "DATETIME", "BOOLEAN", "ENUM"}

\* member.value
EnumValue(member) == StrLower(member)

\* CustomFieldType(token) / CustomFieldCategory(token): ValueError if no member has the value
EnumHasValue(members, token) == \E m \in members : EnumValue(m) = token

EnumFromValue(members, token) == CHOOSE m \in members : EnumValue(m) = token

CustomField(name, xml, ftype, category, description, default, enums) ==
    [ name |-> name, xml_element_name |-> xml, field_type |-> ftype,
      category |-> category, description |-> description,
      default_value |-> default, enum_values |-> enums,
      parent_element |-> "New", notes |-> "" ]

is_required(field) == field.category = "REQUIRED"

\* mifir_fields.MIFIR_FIELDS: the names of the standard catalog
MIFIR_FIELD_NAMES ==
    { "reporting_party_lei", "report_action_type", "tech_record_id",
      "instrument_isin", "instrument_cfi", "execution_datetime",
      "trade_datetime", "settlement_date", "trading_venue",
      "trading_capacity", "price_amount", "price_currency", "quantity",
      "buyer_lei", "buyer_national_id", "buyer_first_name",
      "buyer_last_name", "buyer_birth_date", "buyer_country", "seller_lei",
      "seller_national_id", "seller_first_name", "seller_last_name",
      "seller_birth_date", "seller_country", "investment_decision_person",
      "investment_decision_algo", "execution_decision_person",
      "execution_decision_algo", "short_sale_indicator",
      "commodity_derivative_indicator", "clearing_indicator",
      "securities_financing_indicator", "country_of_branch",
      "investment_firm_covered", "transaction_id" }

FieldNames(fields) == { fields[i].name : i \in 1..Len(fields) }

\* validate_field_name(name)[0]
validate_field_name(fields, name) ==
    /\ name # ""
    /\ StrIsAlnum(RemoveChar(RemoveChar(name, "_"), "-"))
    /\ name \notin FieldNames(fields)
    /\ name \notin MIFIR_FIELD_NAMES

\* validate_xml_element_name(name)[0]
validate_xml_element_name(name) ==
    /\ name # ""
    /\ IsAlpha(Head(name))
    /\ StrIsAlnum(RemoveChar(RemoveChar(name, "_"), "-"))

\* add_custom_field(field): the returned flag and the list afterwards
add_custom_field(fields, field) ==
    IF field.name \in FieldNames(fields)
    THEN [ok |-> FALSE, fields |-> fields]
    ELSE [ok |-> TRUE, fields |-> Append(fields, field)]

RECURSIVE FilterName(_, _)
\* [f for f in fields if f.name != field_name]
FilterName(fields, field_name) ==
    IF fields = <<>> THEN <<>>
    ELSE (IF Head(fields).name # field_name THEN <<Head(fields)>> ELSE <<>>)
         \o FilterName(Tail(fields), field_name)

\* a removal that stops at the first field of that name
RemoveFirstOnly(fields, field_name) ==
    IF \E i \in 1..Len(fields) : fields[i].name = field_name
    THEN LET i == CHOOSE k \in 1..Len(fields) :
                     /\ fields[k].name = field_name
                     /\ \A j \in 1..(k - 1) : fields[j].name # field_name
         IN [ok |-> TRUE,
             fields |-> SubSeq(fields, 1, i - 1) \o SubSeq(fields, i + 1, Len(fields))]
    ELSE [ok |-> TRUE, fields |-> fields]

\* remove_custom_field(field_name): the returned flag and the list afterwards
remove_custom_field(fields, field_name) ==
    [ok |-> TRUE, fields |-> FilterName(fields, field_name)]

\* get_custom_field(field_name): the first field of that name, or None
get_custom_field(fields, field_name) ==
    IF field_name \in FieldNames(fields)
    THEN Some(fields[CHOOSE i \in 1..Len(fields) :
                        /\ fields[i].name = field_name
                        /\ \A j \in 1..(i - 1) : fields[j].name # field_name])
    ELSE None

(***************************************************************************)
(* The interchange format.  A JSON text is modelled by what json.loads     *)
(* makes of it: "invalid" (JSONDecodeError), "scalar" (a value the for     *)
(* loop cannot iterate: TypeError) or "array", a list of objects.  An      *)
(* object is a record whose DOMAIN is the set of keys present.             *)
(***************************************************************************)
json_dumps(items) == [kind |-> "array", items |-> items]

InvalidJson == [kind |-> "invalid", items |-> <<>>]

ScalarJson == [kind |-> "scalar", items |-> <<>>]

\* the dict built for one field in export_custom_fields
field_dict(field) ==
    [ name |-> field.name,
      xml_element_name |-> field.xml_element_name,
      field_type |-> EnumValue(field.field_type),
      category |-> EnumValue(field.category),
      description |-> field.description,
      default_value |-> field.default_value,
      enum_values |-> field.enum_values,
      parent_element |-> field.parent_element,
      notes |-> field.notes ]

\* an export that writes the enum members' names instead of their values
ExportMemberNames(fields) ==
    json_dumps([ i \in 1..Len(fields) |->
        [ field_dict(fields[i]) EXCEPT !.field_type = fields[i].field_type,
                                       !.category = fields[i].category ] ])

\* export_custom_fields()
export_custom_fields(fields) ==
    json_dumps([ i \in 1..Len(fields) |-> field_dict(fields[i]) ])

\* d.get(key, default)
DictGet(d, key, default) == IF key \in DOMAIN d THEN d[key] ELSE default

\* the CustomField(...) call of import_custom_fields raises for this object
DecodeRaises(d) ==
    \/ ~({"name", "xml_element_name", "field_type", "description"} \subseteq DOMAIN d)
    \/ ~EnumHasValue(CustomFieldType, d.field_type)
    \/ ~EnumHasValue(CustomFieldCategory, DictGet(d, "category", "optional"))

\* the CustomField built from one object
DecodeField(d) ==
    [ name |-> d.name,
      xml_element_name |-> d.xml_element_name,
      field_type |-> EnumFromValue(CustomFieldType, d.field_type),
      category |-> EnumFromValue(CustomFieldCategory, DictGet(d, "category", "optional")),
      description |-> d.description,
      default_value |-> DictGet(d, "default_value", ""),
      enum_values |-> DictGet(d, "enum_values", None),
      parent_element |-> DictGet(d, "parent_element", "New"),
      notes |-> DictGet(d, "notes", "") ]

RECURSIVE DecodedPrefix(_)
\* the fields decoded before the first object that raises
DecodedPrefix(items) ==
    IF items = <<>> \/ DecodeRaises(Head(items)) THEN <<>>
    ELSE <<DecodeField(Head(items))>> \o DecodedPrefix(Tail(items))

\* an import that stores each field as soon as it is decoded
ImportPartial(fields, json) ==
    IF json.kind # "array" THEN [ok |-> FALSE, fields |-> fields]
    ELSE [ok |-> \A i \in 1..Len(json.items) : ~DecodeRaises(json.items[i]),
          fields |-> DecodedPrefix(json.items)]

\* import_custom_fields(json_str): the returned flag and the list afterwards
import_custom_fields(fields, json) ==
    IF json.kind # "array" THEN [ok |-> FALSE, fields |-> fields]
    ELSE IF \E i \in 1..Len(json.items) : DecodeRaises(json.items[i])
    THEN [ok |-> FALSE, fields |-> fields]
    ELSE [ok |-> TRUE,
          fields |-> [ i \in 1..Len(json.items) |-> DecodeField(json.items[i]) ]]

(***************************************************************************)
(* Inputs of the registry calls.                                           *)
(***************************************************************************)
ClientRef == CustomField("client_ref", "ClntRef", "STRING", "REQUIRED", "Client reference", "", None)

Desk == CustomField("desk", "Desk", "ENUM", "OPTIONAL", "Trading desk", "A", Some(<<"A", "B">>))

\* the same name as ClientRef, everything else different
ClientRefAgain == CustomField("client_ref", "ClntRef2", "BOOLEAN", "CONSTANT", "Duplicate", "true", None)

\* a name of the standard catalog
StdNameField == CustomField("transaction_id", "TxRef", "STRING", "CONDITIONAL", "Catalog name", "", None)

BadNameField == CustomField("bad name!", "BadNm", "STRING", "OPTIONAL", "Invalid name", "", None)

EmptyNameField == CustomField("", "Empty", "STRING", "OPTIONAL", "Empty name", "", None)

DigitXmlField == CustomField("ok_name", "1abc", "INTEGER", "OPTIONAL", "XML name starts with a digit", "", None)

BadXmlField == CustomField("ok-name2", "a b", "DECIMAL", "OPTIONAL", "XML name with a space", "", None)

EmptyXmlField == CustomField("ok3", "", "DATETIME", "OPTIONAL", "Empty XML name", "", None)

FieldPool ==
    { ClientRef, Desk, ClientRefAgain, StdNameField, BadNameField,
      EmptyNameField, DigitXmlField, BadXmlField, EmptyXmlField }

NamePool == { "client_ref", "desk", "absent_name" }

\* a record without one of its keys
Without(d, key) == [ k \in DOMAIN d \ {key} |-> d[k] ]

\* an object holding only the keys that have no default
MinimalObject ==
    [ name |-> "venue_ref", xml_element_name |-> "VnRef",
      field_type |-> "string", description |-> "Venue reference" ]

JsonPool ==
    { InvalidJson, ScalarJson, json_dumps(<<>>),
      json_dumps(<<field_dict(Desk), MinimalObject>>),
      json_dumps(<<field_dict(ClientRef), field_dict(ClientRefAgain)>>),
      json_dumps(<<field_dict(Desk), Without(MinimalObject, "name")>>),
      json_dumps(<<Without(field_dict(Desk), "xml_element_name")>>),
      json_dumps(<<Without(MinimalObject, "field_type")>>),
      json_dumps(<<MinimalObject, Without(MinimalObject, "description")>>),
      json_dumps(<<[MinimalObject EXCEPT !.field_type = "text"]>>),
      json_dumps(<<field_dict(Desk), [field_dict(ClientRef) EXCEPT !.category = "mandatory"]>>) }

(***************************************************************************)
(* The registry as a state machine: one action per public call.            *)
(***************************************************************************)
NoOp ==
    [ op |-> "none", ok |-> TRUE, before |-> <<>>,
      field |-> ClientRef, name |-> "", json |-> InvalidJson ]

\* no generate_xml call is under way
GenIdle ==
    /\ df = <<>>
    /\ field_mappings = <<>>
    /\ constants = <<>>
    /\ manager_given = FALSE
    /\ now = 0
    /\ pc = "idle"
    /\ hdr = <<>>
    /\ txs = <<>>
    /\ reads = <<>>
    /\ hash_seed = 0
    /\ result = <<>>

\* no auto_suggest_mappings call is under way
AutoIdle ==
    /\ suggestions = <<>>
    /\ mapper_pc = "idle"
    /\ cursor = 0

\* no helper is called on its own
CallIdle ==
    /\ call = <<>>
    /\ returned = <<>>

InitReg ==
    /\ custom_fields = <<>>
    /\ lastOp = NoOp
    /\ GenIdle
    /\ AutoIdle
    /\ CallIdle

AddCustomField ==
    \E f \in FieldPool :
        /\ Len(custom_fields) < MaxFields
        /\ LET r == add_custom_field(custom_fields, f) IN
            /\ custom_fields' = r.fields
            /\ lastOp' = [NoOp EXCEPT !.op = "add", !.ok = r.ok,
                                      !.before = custom_fields, !.field = f]

RemoveCustomField ==
    \E n \in NamePool :
        LET r == remove_custom_field(custom_fields, n) IN
            /\ custom_fields' = r.fields
            /\ lastOp' = [NoOp EXCEPT !.op = "remove", !.ok = r.ok,
                                      !.before = custom_fields, !.name = n]

\* import_custom_fields on a text of the pool, or on what export_custom_fields() returns now
ImportCustomFields ==
    \E j \in JsonPool \cup { export_custom_fields(custom_fields) } :
        LET r == import_custom_fields(custom_fields, j) IN
            /\ custom_fields' = r.fields
            /\ lastOp' = [NoOp EXCEPT !.op = "import", !.ok = r.ok,
                                      !.before = custom_fields, !.json = j]

NextReg ==
    \/ AddCustomField /\ UNCHANGED genVars /\ UNCHANGED autoVars /\ UNCHANGED callVars
    \/ RemoveCustomField /\ UNCHANGED genVars /\ UNCHANGED autoVars /\ UNCHANGED callVars
    \/ ImportCustomFields /\ UNCHANGED genVars /\ UNCHANGED autoVars /\ UNCHANGED callVars

SpecReg == InitReg /\ [][NextReg]_vars

(***************************************************************************)
(* Claims about the custom registry, checked under SpecReg.                *)
(***************************************************************************)
\* a character that an identifier may hold: a letter, a digit, '_' or '-'
IdentChar(c) == IsAlpha(c) \/ IsAsciiDigit(c) \/ c = "_" \/ c = "-"

HasOtherChar(s) == \E i \in 1..Len(s) : ~IdentChar(CharAt(s, i))

\* the fields an add must reject
MustReject(before, f) ==
    \/ f.name \in FieldNames(before)
    \/ f.name \in MIFIR_FIELD_NAMES
    \/ f.name = ""
    \/ HasOtherChar(f.name)
    \/ f.xml_element_name = ""
    \/ ~IsAlpha(Head(f.xml_element_name))
    \/ HasOtherChar(f.xml_element_name)

\* C7: add_custom_field returns failure and leaves the registry unchanged
\* whenever the name is already in the registry or in the standard catalog, or
\* the name or the XML element name fails identifier validation; otherwise it
\* appends the field and returns success.
C7_AddRejectsInvalid ==
    lastOp.op = "add" =>
        IF MustReject(lastOp.before, lastOp.field)
        THEN ~lastOp.ok /\ custom_fields = lastOp.before
        ELSE lastOp.ok /\ custom_fields = Append(lastOp.before, lastOp.field)

TypeTokens == {"string", "decimal", "integer", "datetime", "boolean", "enum"}

CategoryTokens == {"required", "conditional", "optional", "constant"}

\* one object of an import fails to decode
ObjectFails(d) ==
    \/ "name" \notin DOMAIN d
    \/ "xml_element_name" \notin DOMAIN d
    \/ "field_type" \notin DOMAIN d
    \/ "description" \notin DOMAIN d
    \/ d.field_type \notin TypeTokens
    \/ ("category" \in DOMAIN d /\ d.category \notin CategoryTokens)

ImportMustFail(json) ==
    \/ json.kind # "array"
    \/ \E i \in 1..Len(json.items) : ObjectFails(json.items[i])

C9_ImportExportRoundTrip ==
    (lastOp.op = "import" /\ lastOp.json = export_custom_fields(lastOp.before)) =>
        /\ lastOp.ok
        /\ custom_fields = lastOp.before

\* the round trip of a registry of two fields, one of them with enum values
C9_Witness ==
    /\ lastOp.op = "import"
    /\ lastOp.json = export_custom_fields(lastOp.before)
    /\ Len(lastOp.before) = 2
    /\ \E i \in 1..2 : lastOp.before[i].enum_values # None
    /\ \E i \in 1..2 : lastOp.before[i].category # "OPTIONAL"
    /\ lastOp.ok
    /\ custom_fields = lastOp.before

\* the positions of the fields a removal keeps
KeptPositions(before, name) == { i \in 1..Len(before) : before[i].name # name }

\* the k-th smallest member of a set of positions
KthOf(positions, k) ==
    CHOOSE i \in positions : Cardinality({ j \in positions : j <= i }) = k

\* C10: remove_custom_field always returns success; an absent name leaves the
\* list unchanged, a present name deletes exactly the fields of that name and
\* keeps the others in order; removing twice equals removing once.
C10_RemoveIdempotent ==
    lastOp.op = "remove" =>
        LET kept == KeptPositions(lastOp.before, lastOp.name)
            again == remove_custom_field(custom_fields, lastOp.name)
        IN /\ lastOp.ok
           /\ (lastOp.name \notin FieldNames(lastOp.before) => custom_fields = lastOp.before)
           /\ Len(custom_fields) = Cardinality(kept)
           /\ \A k \in 1..Len(custom_fields) :
                  custom_fields[k] = lastOp.before[KthOf(kept, k)]
           /\ again.ok
           /\ again.fields = custom_fields

\* a removal that deletes two fields of one name
C10_Witness ==
    /\ lastOp.op = "remove"
    /\ Len(lastOp.before) = 2
    /\ lastOp.before[1].name = lastOp.name
    /\ lastOp.before[2].name = lastOp.name
    /\ custom_fields = <<>>

(***************************************************************************)
(* mifir_xml_generator.py: MiFIRXMLGenerator.                              *)
(*                                                                         *)
(* An element is [tag, text, attrs, kids]; an element whose text was never *)
(* set has text "" (both serialise to an empty element).  A row of the     *)
(* DataFrame is a sequence of [col, cell]; a cell is None (NaN) or         *)
(* Some(text).  field_mappings and constants are functions whose DOMAIN is *)
(* the set of keys present.                                                *)
(***************************************************************************)
Attr(name, value) == [name |-> name, value |-> value]

Elem(tag, text, attrs, kids) == [tag |-> tag, text |-> text, attrs |-> attrs, kids |-> kids]

\* SubElement(parent, tag) with .text set
Leaf(tag, text) == Elem(tag, text, <<>>, <<>>)

\* SubElement(parent, tag) holding children
Node(tag, kids) == Elem(tag, "", <<>>, kids)

\* the tags of an element's children, in order
KidTags(e) == [ i \in 1..Len(e.kids) |-> e.kids[i].tag ]

\* the first child with that tag
Kid(e, tag) == e.kids[CHOOSE i \in 1..Len(e.kids) :
                          /\ e.kids[i].tag = tag
                          /\ \A j \in 1..(i - 1) : e.kids[j].tag # tag]

HasKid(e, tag) == \E i \in 1..Len(e.kids) : e.kids[i].tag = tag

\* _has_mapping
has_mapping(mifir_field_name, mappings) ==
    /\ mifir_field_name \in DOMAIN mappings
    /\ mappings[mifir_field_name] # ""
    /\ mappings[mifir_field_name] # "None"

\* str(value).strip() if pd.notna(value) else ""
CellText(cell) == IF cell = None THEN "" ELSE Strip(cell[1])

\* _get_csv_value
get_csv_value(row, column_name) ==
    IF \E i \in 1..Len(row) : row[i].col = column_name
    THEN CellText(row[CHOOSE i \in 1..Len(row) : row[i].col = column_name].cell)
    ELSE IF \E i \in 1..Len(row) : Strip(row[i].col) = column_name
    THEN CellText(row[CHOOSE i \in 1..Len(row) :
                          /\ Strip(row[i].col) = column_name
                          /\ \A j \in 1..(i - 1) : Strip(row[j].col) # column_name].cell)
    ELSE ""

\* _get_mapped_value
get_mapped_value(mifir_field_name, row, mappings, consts) ==
    IF mifir_field_name \notin DOMAIN mappings THEN ""
    ELSE LET mapping == mappings[mifir_field_name] IN
         IF mapping = "[Constant Value]" THEN DictGet(consts, mifir_field_name, "")
         ELSE IF mapping # "" /\ mapping # "None" THEN get_csv_value(row, mapping)
         ELSE ""

\* c in s
Contains(s, c) == \E i \in 1..Len(s) : CharAt(s, i) = c

(***************************************************************************)
(* The clock.  A reading of datetime.now() is a number of whole seconds    *)
(* after 2025-08-19T23:59:59, below one minute: reading 0 is the last      *)
(* second of the 19th, the later readings fall on the 20th.                *)
(***************************************************************************)
TwoDigits(n) == CharAt(Digits09, (n \div 10) + 1) \o CharAt(Digits09, (n % 10) + 1)

\* f"{n:03d}"
ThreeDigits(n) == CharAt(Digits09, (n \div 100) + 1) \o TwoDigits(n % 100)

\* strftime('%d')
ClockDay(t) == IF t = 0 THEN "19" ELSE "20"

\* strftime('%H')
ClockHour(t) == IF t = 0 THEN "23" ELSE "00"

\* strftime('%M')
ClockMinute(t) == IF t = 0 THEN "59" ELSE "00"

\* strftime('%S')
ClockSecond(t) == IF t = 0 THEN "59" ELSE TwoDigits(t - 1)

\* strftime('%Y-%m-%d')
StrfDate(t) == "2025-08-" \o ClockDay(t)

\* strftime('%Y%m%d%H%M%S')
StrfCompact(t) == "202508" \o ClockDay(t) \o ClockHour(t) \o ClockMinute(t) \o ClockSecond(t)

\* strftime('%Y%m%d_%H%M%S')
StrfCompactUnderscore(t) ==
    "202508" \o ClockDay(t) \o "_" \o ClockHour(t) \o ClockMinute(t) \o ClockSecond(t)

\* strftime('%Y-%m-%dT%H:%M:%SZ')
StrfIsoSeconds(t) ==
    StrfDate(t) \o "T" \o ClockHour(t) \o ":" \o ClockMinute(t) \o ":" \o ClockSecond(t) \o "Z"

\* strftime('%Y-%m-%dT%H:%M:%S.%fZ')
StrfIsoMicros(t) ==
    StrfDate(t) \o "T" \o ClockHour(t) \o ":" \o ClockMinute(t) \o ":" \o ClockSecond(t)
        \o ".000000Z"

\* length below which a colon-bearing string is taken for a bare time
PartialTimeMaxLen == 15

\* _format_datetime without the test for an already complete timestamp
FormatWithoutIsoTest(timestamp_str, t) ==
    IF timestamp_str = "" THEN StrfIsoMicros(t)
    ELSE IF Contains(timestamp_str, ":") /\ Len(timestamp_str) < PartialTimeMaxLen
    THEN StrfDate(t) \o "T" \o timestamp_str \o ":00.000Z"
    ELSE timestamp_str

\* _format_datetime
format_datetime(timestamp_str, t) ==
    IF timestamp_str = "" THEN StrfIsoMicros(t)
    ELSE IF Contains(timestamp_str, "T") /\ Contains(timestamp_str, "Z") THEN timestamp_str
    ELSE IF Contains(timestamp_str, ":") /\ Len(timestamp_str) < PartialTimeMaxLen
    THEN StrfDate(t) \o "T" \o timestamp_str \o ":00.000Z"
    ELSE timestamp_str

LeiLength == 20

Placeholders == {"BUYER_LEI_HERE", "SELLER_LEI_HERE", "YOUR_FIRM_LEI_HERE"}

\* a shape test that forgets the character class
IsLeiByLengthOnly(identifier) ==
    /\ identifier # ""
    /\ identifier \notin Placeholders
    /\ Len(identifier) = LeiLength

\* _is_lei_format
is_lei_format(identifier) ==
    /\ identifier # ""
    /\ identifier \notin Placeholders
    /\ Len(identifier) = LeiLength
    /\ StrIsAlnum(identifier)

\* the calendar dates pd.to_datetime is modelled to parse: YYYY-MM-DD,
\* alone or followed by a space or 'T' and a time
IsoDateLength == 10

LooksLikeIsoDate(s) ==
    /\ Len(s) >= IsoDateLength
    /\ \A i \in 1..IsoDateLength :
           IF i \in {5, 8} THEN CharAt(s, i) = "-" ELSE IsAsciiDigit(CharAt(s, i))
    /\ (Len(s) > IsoDateLength => CharAt(s, IsoDateLength + 1) \in {" ", "T"})

RECURSIVE BeforeFirst(_, _)
\* s.split(c)[0]
BeforeFirst(s, c) ==
    IF s = "" \/ Head(s) = c THEN "" ELSE Head(s) \o BeforeFirst(Tail(s), c)

\* _format_date
format_date(date_str) ==
    IF date_str = "" THEN ""
    ELSE IF LooksLikeIsoDate(date_str) THEN Prefix(date_str, IsoDateLength)
    ELSE IF Contains(date_str, " ") THEN BeforeFirst(date_str, " ")
    ELSE date_str

(***************************************************************************)
(* validate_custom_field_values (custom_fields.py), used by the assembler. *)
(***************************************************************************)
AllDigits(s) == Len(s) > 0 /\ \A i \in 1..Len(s) : IsAsciiDigit(CharAt(s, i))

Unsigned(s) == IF s # "" /\ Head(s) \in {"+", "-"} THEN Tail(s) ELSE s

RECURSIVE AfterFirst(_, _)
\* the text after the first occurrence of one of the characters, "" if none
AfterFirst(s, cs) ==
    IF s = "" THEN "" ELSE IF Head(s) \in cs THEN Tail(s) ELSE AfterFirst(Tail(s), cs)

RECURSIVE UpToFirst(_, _)
\* the text before the first occurrence of one of the characters
UpToFirst(s, cs) ==
    IF s = "" \/ Head(s) \in cs THEN "" ELSE Head(s) \o UpToFirst(Tail(s), cs)

\* int(value) does not raise: optional sign and decimal digits, blanks around
IntParses(value) == AllDigits(Unsigned(Strip(value)))

\* a mantissa: digits with at most one point and at least one digit
IsMantissa(m) ==
    LET whole == UpToFirst(m, {"."})
        frac == AfterFirst(m, {"."})
    IN /\ whole \o frac # ""
       /\ (whole = "" \/ AllDigits(whole))
       /\ (frac = "" \/ AllDigits(frac))

\* float(value) does not raise: inf / nan, or a decimal with an optional exponent
FloatParses(value) ==
    LET body == Unsigned(Strip(value)) IN
    \/ StrLower(body) \in {"inf", "infinity", "nan"}
    \/ /\ IsMantissa(UpToFirst(body, {"e", "E"}))
       /\ (\E i \in 1..Len(body) : CharAt(body, i) \in {"e", "E"})
              => AllDigits(Unsigned(AfterFirst(body, {"e", "E"})))

BooleanTokens == {"true", "false", "1", "0", "yes", "no", "y", "n"}

\* value[-6:]
LastSix(value) == IF Len(value) <= 6 THEN value ELSE SubSeq(value, Len(value) - 5, Len(value))

\* value in field.enum_values
InEnumValues(field, value) ==
    \E i \in 1..Len(field.enum_values[1]) : field.enum_values[1][i] = value

\* a validation that lets an empty value pass for every field
ValidateWithoutRequiredTest(field, value) ==
    IF value = "" THEN TRUE
    ELSE CASE field.field_type = "BOOLEAN" -> StrLower(value) \in BooleanTokens
           [] field.field_type = "ENUM" ->
                ~( /\ field.enum_values # None
                   /\ field.enum_values[1] # <<>>
                   /\ ~InEnumValues(field, value) )
           [] OTHER -> TRUE

\* validate_custom_field_values(field, value)[0]
validate_custom_field_values(field, value) ==
    IF value = "" THEN ~is_required(field)
    ELSE CASE field.field_type = "DECIMAL" -> FloatParses(value)
           [] field.field_type = "INTEGER" -> IntParses(value)
           [] field.field_type = "BOOLEAN" -> StrLower(value) \in BooleanTokens
           [] field.field_type = "ENUM" ->
                ~( /\ field.enum_values # None
                   /\ field.enum_values[1] # <<>>
                   /\ ~InEnumValues(field, value) )
           [] field.field_type = "DATETIME" ->
                /\ Contains(value, "T")
                /\ (Contains(value, "Z") \/ Contains(value, "+") \/ Contains(LastSix(value), "-"))
           [] OTHER -> TRUE

(***************************************************************************)
(* The header (Hdr/AppHdr).                                                *)
(***************************************************************************)
XsiNamespace == "http://www.w3.org/2001/XMLSchema-instance"

OrgIdBlock(tag, id) ==
    Node(tag, <<Node("OrgId", <<Node("Id", <<Node("OrgId", <<Node("Othr", <<Leaf("Id", id)>>)>>)>>)>>)>>)

\* a header whose CreDt is always the clock's
HeaderWithClockCreDt(consts, t) ==
    Node("Hdr", <<
        Elem("AppHdr", "", <<>>,
             << OrgIdBlock("Fr", DictGet(consts, "from_org_id", "KD")),
                OrgIdBlock("To", DictGet(consts, "to_org_id", "CY")),
                Leaf("BizMsgIdr", DictGet(consts, "biz_msg_id", "")),
                Leaf("MsgDefIdr", "auth.016.001.01"),
                Leaf("CreDt", StrfIsoSeconds(t)) >>) >>)

\* _add_header: the Hdr element, the clock reading being t
add_header(consts, t) ==
    Node("Hdr", <<
        Elem("AppHdr", "",
             << Attr("xmlns", "urn:iso:std:iso:20022:tech:xsd:head.001.001.01"),
                Attr("xmlns:xsi", XsiNamespace),
                Attr("xsi:schemaLocation",
                     "urn:iso:std:iso:20022:tech:xsd:head.001.001.01 head.001.001.01_ESMAUG_1.0.0.xsd") >>,
             << OrgIdBlock("Fr", DictGet(consts, "from_org_id", "KD")),
                OrgIdBlock("To", DictGet(consts, "to_org_id", "CY")),
                Leaf("BizMsgIdr",
                     IF "biz_msg_id" \in DOMAIN consts /\ consts["biz_msg_id"] # ""
                     THEN consts["biz_msg_id"]
                     ELSE "KD_DATTRA_generated_" \o StrfCompactUnderscore(t)),
                Leaf("MsgDefIdr", "auth.016.001.01"),
                Leaf("CreDt", DictGet(consts, "creation_date", StrfIsoSeconds(t))) >>) >>)

(***************************************************************************)
(* Buyer and seller.                                                       *)
(***************************************************************************)
FIRM_LEI == "2138005EFA978Y43G944"

\* the buyer identifier of _add_buyer
resolve_buyer_lei(row, fm, consts) ==
    LET direct == get_mapped_value("buyer_lei", row, fm, consts)
        taker_side == StrLower(get_mapped_value("taker_side_ordertype_sellorbuy", row, fm, consts))
        inferred ==
            IF direct # "" THEN direct
            ELSE IF taker_side = "buy"
                 THEN get_mapped_value("fills_taker_user_id", row, fm, consts)
                 ELSE get_mapped_value("fills_maker_user_id", row, fm, consts)
    IN IF inferred # "" THEN inferred ELSE "BUYER_LEI_HERE"

\* the seller identifier of _add_seller
resolve_seller_lei(row, fm, consts) ==
    LET direct == get_mapped_value("seller_lei", row, fm, consts)
        taker_side == StrLower(get_mapped_value("taker_side_ordertype_sellorbuy", row, fm, consts))
        inferred ==
            IF direct # "" THEN direct
            ELSE IF taker_side = "sell"
                 THEN get_mapped_value("fills_taker_user_id", row, fm, consts)
                 ELSE get_mapped_value("fills_maker_user_id", row, fm, consts)
    IN IF inferred # "" THEN inferred ELSE "SELLER_LEI_HERE"

\* _add_decision_makers: the elements it appends to the party (none or one)
add_decision_makers(row, fm, consts, decision_type) ==
    LET person == IF decision_type = "investment"
                  THEN "investment_decision_person" ELSE "execution_decision_person"
        algo == IF decision_type = "investment"
                THEN "investment_decision_algo" ELSE "execution_decision_algo"
        tag == IF decision_type = "investment" THEN "DcsnMakr" ELSE "ExctnWthnFirm"
    IN IF has_mapping(person, fm)
       THEN <<Node(tag, <<Node("Prsn", <<Leaf("Id", get_mapped_value(person, row, fm, consts))>>)>>)>>
       ELSE IF has_mapping(algo, fm)
       THEN <<Node(tag, <<Node("Algo", <<Leaf("Id", get_mapped_value(algo, row, fm, consts))>>)>>)>>
       ELSE <<>>

\* the Prsn element of a natural person; side is "buyer" or "seller"
person_block(side, default_name, row, fm, consts) ==
    Node("Prsn",
         (IF has_mapping(side \o "_first_name", fm)
          THEN <<Leaf("FrstNm", get_mapped_value(side \o "_first_name", row, fm, consts))>>
          ELSE <<>>)
      \o <<Leaf("Nm", IF has_mapping(side \o "_last_name", fm)
                      THEN get_mapped_value(side \o "_last_name", row, fm, consts)
                      ELSE default_name)>>
      \o (IF has_mapping(side \o "_birth_date", fm)
          THEN <<Leaf("BirthDt",
                      format_date(get_mapped_value(side \o "_birth_date", row, fm, consts)))>>
          ELSE <<>>)
      \o <<Node("Othr",
                IF has_mapping(side \o "_national_id", fm)
                THEN << Leaf("Id", get_mapped_value(side \o "_national_id", row, fm, consts)),
                        Node("SchmeNm", <<Leaf("Cd", "NIDN")>>) >>
                ELSE << Leaf("Id", "UNKNOWN_ID"),
                        Node("SchmeNm", <<Leaf("Cd", "NOID")>>) >>)>>)

\* a party block that attaches the decision maker to every legal entity
PartyWithDecisionMakerForAnyLei(tag, side, default_name, decision_type, lei, row, fm, consts) ==
    Node(tag,
         <<Node("AcctOwnr",
                <<Node("Id", IF is_lei_format(lei)
                             THEN <<Leaf("LEI", lei)>>
                             ELSE <<person_block(side, default_name, row, fm, consts)>>)>>
             \o (IF ~is_lei_format(lei) /\ has_mapping(side \o "_country", fm)
                 THEN <<Leaf("CtryOfBrnch", get_mapped_value(side \o "_country", row, fm, consts))>>
                 ELSE <<>>))>>
      \o (IF is_lei_format(lei)
          THEN add_decision_makers(row, fm, consts, decision_type)
          ELSE <<>>))

\* the Buyr / Sellr element built around a resolved identifier
party_block(tag, side, default_name, decision_type, lei, row, fm, consts) ==
    Node(tag,
         <<Node("AcctOwnr",
                <<Node("Id", IF is_lei_format(lei)
                             THEN <<Leaf("LEI", lei)>>
                             ELSE <<person_block(side, default_name, row, fm, consts)>>)>>
             \o (IF ~is_lei_format(lei) /\ has_mapping(side \o "_country", fm)
                 THEN <<Leaf("CtryOfBrnch", get_mapped_value(side \o "_country", row, fm, consts))>>
                 ELSE <<>>))>>
      \o (IF is_lei_format(lei) /\ lei = FIRM_LEI
          THEN add_decision_makers(row, fm, consts, decision_type)
          ELSE <<>>))

\* _add_buyer
add_buyer(row, fm, consts) ==
    party_block("Buyr", "buyer", "Counterparty Buyer", "investment",
                resolve_buyer_lei(row, fm, consts), row, fm, consts)

\* _add_seller
add_seller(row, fm, consts) ==
    party_block("Sellr", "seller", "Counterparty Seller", "execution",
                resolve_seller_lei(row, fm, consts), row, fm, consts)

(***************************************************************************)
(* The financial instrument, the custom fields, the transaction record.    *)
(***************************************************************************)
\* the text of an element that has a default: the mapped value if the field
\* is mapped, the default otherwise
MappedOr(name, default, row, fm, consts) ==
    IF has_mapping(name, fm) THEN get_mapped_value(name, row, fm, consts) ELSE default

\* the first mapped field of the two or three alternatives, or the default
FirstMappedOr(names, default, row, fm, consts) ==
    IF \E i \in 1..Len(names) : has_mapping(names[i], fm)
    THEN get_mapped_value(names[CHOOSE i \in 1..Len(names) :
                                    /\ has_mapping(names[i], fm)
                                    /\ \A j \in 1..(i - 1) : ~has_mapping(names[j], fm)],
                          row, fm, consts)
    ELSE default

\* the generic description of _add_financial_instrument_correct
othr_instrument(row, fm, consts) ==
    Node("Othr", <<
        Node("FinInstrmGnlAttrbts", <<
            Leaf("FullNm", FirstMappedOr(<<"instrument_full_name", "instrument_name", "instrument_symbol">>,
                                         "CRYPTO_DERIVATIVE", row, fm, consts)),
            Leaf("ClssfctnTp", FirstMappedOr(<<"instrument_classification", "classification_type">>,
                                             "SESTXC", row, fm, consts)),
            Leaf("NtnlCcy", FirstMappedOr(<<"instrument_notional_currency", "notional_currency">>,
                                          "USD", row, fm, consts)) >>),
        Node("DerivInstrmAttrbts", <<
            Leaf("PricMltplr", MappedOr("price_multiplier", "1", row, fm, consts)),
            Node("UndrlygInstrm", <<Node("Othr", <<Node("Sngl", <<
                IF has_mapping("instrument_isin", fm)
                THEN Leaf("ISIN", get_mapped_value("instrument_isin", row, fm, consts))
                ELSE Leaf("Id", "UNKNOWN_INSTRUMENT") >>)>>)>>),
            Leaf("DlvryTp", MappedOr("delivery_type", "CASH", row, fm, consts)) >>) >>)

\* an instrument block that takes the ISIN form for every mapped value, blank or not
FinInstrmWithoutBlankCheck(row, fm, consts) ==
    IF has_mapping("instrument_isin", fm)
    THEN Node("FinInstrm", <<Leaf("ISIN", Strip(get_mapped_value("instrument_isin", row, fm, consts)))>>)
    ELSE Node("FinInstrm", <<othr_instrument(row, fm, consts)>>)

\* _add_financial_instrument_correct
add_financial_instrument_correct(row, fm, consts) ==
    IF /\ has_mapping("instrument_isin", fm)
       /\ Strip(get_mapped_value("instrument_isin", row, fm, consts)) # ""
    THEN Node("FinInstrm", <<Leaf("ISIN", Strip(get_mapped_value("instrument_isin", row, fm, consts)))>>)
    ELSE Node("FinInstrm", <<othr_instrument(row, fm, consts)>>)

\* the element (none or one) that _add_custom_fields emits for one field
custom_element(field, row, fm, consts) ==
    IF ~has_mapping(field.name, fm) THEN <<>>
    ELSE LET value == get_mapped_value(field.name, row, fm, consts) IN
         IF validate_custom_field_values(field, value) /\ value # ""
         THEN <<Leaf(field.xml_element_name, value)>>
         ELSE IF is_required(field) /\ value = "" /\ field.default_value # ""
         THEN <<Leaf(field.xml_element_name, field.default_value)>>
         ELSE <<>>

RECURSIVE add_custom_fields(_, _, _, _)
\* _add_custom_fields: the elements appended to New, in registry order
add_custom_fields(fields, row, fm, consts) ==
    IF fields = <<>> THEN <<>>
    ELSE custom_element(Head(fields), row, fm, consts)
         \o add_custom_fields(Tail(fields), row, fm, consts)

RECURSIVE FilterAlnum(_)
\* ''.join(c for c in s if c.isalnum())
FilterAlnum(s) ==
    IF s = "" THEN ""
    ELSE (IF IsAlnum(Head(s)) THEN Head(s) ELSE "") \o FilterAlnum(Tail(s))

TxIdMaxLen == 52

HashModulus == 1000

\* the TxId text; t is the clock reading and h the value of hash(str(row.to_dict()))
tx_id_text(row, fm, consts, t, h) ==
    IF has_mapping("transaction_id", fm)
    THEN LET clean_tx_id ==
                 Prefix(FilterAlnum(StrUpper(get_mapped_value("transaction_id", row, fm, consts))),
                        TxIdMaxLen)
         IN IF clean_tx_id # "" THEN clean_tx_id ELSE "AUTOTXN001"
    ELSE Prefix("AUTOTXN" \o StrfCompact(t) \o ThreeDigits(h % HashModulus), TxIdMaxLen)

\* a TradgCpcty that upper-cases whatever is mapped
CapacityUpperCased(row, fm, consts) ==
    IF has_mapping("trading_capacity", fm)
    THEN StrUpper(get_mapped_value("trading_capacity", row, fm, consts))
    ELSE "AOTC"

\* the TradgCpcty text
trading_capacity_text(row, fm, consts) ==
    IF has_mapping("trading_capacity", fm)
    THEN LET capacity_value == get_mapped_value("trading_capacity", row, fm, consts) IN
         IF StrLower(capacity_value) \in {"buy", "sell", "prin", "principal"} THEN "AOTC"
         ELSE IF StrUpper(capacity_value) \in {"DEAL", "MTCH", "AOTC"} THEN StrUpper(capacity_value)
         ELSE "AOTC"
    ELSE "AOTC"

\* the ShrtSellgInd text
short_selling_text(row, fm, consts) ==
    IF has_mapping("short_sale_indicator", fm)
    THEN LET ssi_value == get_mapped_value("short_sale_indicator", row, fm, consts) IN
         IF StrUpper(ssi_value) \in {"NSHO", "LONG", "BUY"} THEN "UNDI"
         ELSE IF StrLower(ssi_value) \in {"short", "sell"} THEN "SELL"
         ELSE IF StrUpper(ssi_value) \in {"SESH", "SELL", "SSEX", "UNDI"} THEN StrUpper(ssi_value)
         ELSE "UNDI"
    ELSE "UNDI"

\* the trade-details block New/Tx
trade_details(row, fm, consts, t) ==
    Node("Tx", <<
        Leaf("TradDt", IF has_mapping("trade_datetime", fm)
                       THEN format_datetime(get_mapped_value("trade_datetime", row, fm, consts), t)
                       ELSE StrfIsoMicros(t)),
        Leaf("TradgCpcty", trading_capacity_text(row, fm, consts)),
        Node("Qty", <<Leaf("Unit", MappedOr("quantity", "1.0", row, fm, consts))>>),
        Node("Pric", <<Node("Pric", <<Node("MntryVal", <<
            Elem("Amt", MappedOr("price_amount", "100.00", row, fm, consts),
                 <<Attr("Ccy", MappedOr("price_currency", "USD", row, fm, consts))>>, <<>>),
            Leaf("Sgn", "true") >>)>>)>>),
        Leaf("TradVn", MappedOr("trading_venue", "XOFF", row, fm, consts)) >>)

\* the ExctgPty text
executing_party_text(row, fm, consts) ==
    IF has_mapping("executing_party", fm)
    THEN get_mapped_value("executing_party", row, fm, consts)
    ELSE IF get_mapped_value("reporting_party_lei", row, fm, consts) # ""
    THEN get_mapped_value("reporting_party_lei", row, fm, consts)
    ELSE "YOUR_FIRM_LEI_HERE"

\* the SubmitgPty text
submitting_party_text(row, fm, consts) ==
    IF has_mapping("reporting_party_lei", fm)
    THEN get_mapped_value("reporting_party_lei", row, fm, consts)
    ELSE DictGet(consts, "reporting_party_lei", "YOUR_FIRM_LEI_HERE")

\* the eleven elements _add_mifir_transaction puts under New before the custom fields
standard_children(row, fm, consts, t, h) ==
    << Leaf("TxId", tx_id_text(row, fm, consts, t, h)),
       Leaf("ExctgPty", executing_party_text(row, fm, consts)),
       Leaf("InvstmtPtyInd", MappedOr("investment_party_ind", "true", row, fm, consts)),
       Leaf("SubmitgPty", submitting_party_text(row, fm, consts)),
       add_buyer(row, fm, consts),
       add_seller(row, fm, consts),
       Node("OrdrTrnsmssn",
            <<Leaf("TrnsmssnInd", MappedOr("transmission_indicator", "false", row, fm, consts))>>),
       trade_details(row, fm, consts, t),
       add_financial_instrument_correct(row, fm, consts),
       Node("ExctgPrsn", <<Leaf("Clnt", MappedOr("executing_person", "NORE", row, fm, consts))>>),
       Node("AddtlAttrbts",
            << Leaf("ShrtSellgInd", short_selling_text(row, fm, consts)),
               Leaf("SctiesFincgTxInd",
                    MappedOr("securities_financing_indicator", "false", row, fm, consts)) >>) >>

\* the custom elements under New; manager is None or Some(the registry's list)
custom_children(row, fm, consts, manager) ==
    IF manager # None THEN add_custom_fields(manager[1], row, fm, consts) ELSE <<>>

\* a record that emits the custom elements ahead of the standard ones
TransactionCustomFirst(row, fm, consts, manager, t, h) ==
    Node("Tx", <<Node("New", custom_children(row, fm, consts, manager)
                             \o standard_children(row, fm, consts, t, h))>>)

\* _add_mifir_transaction: the Tx element appended to FinInstrmRptgTxRpt
add_mifir_transaction(row, fm, consts, manager, t, h) ==
    Node("Tx", <<Node("New", standard_children(row, fm, consts, t, h)
                             \o custom_children(row, fm, consts, manager))>>)

\* the document generate_xml returns, as the element tree of its text
document_root(header, records) ==
    Elem("BizData", "",
         << Attr("xmlns", "urn:iso:std:iso:20022:tech:xsd:head.003.001.01"),
            Attr("xmlns:xsi", XsiNamespace),
            Attr("xsi:schemaLocation", "urn:iso:std:iso:20022:tech:xsd:head.003.001.01 head.003.001.01.xsd") >>,
         << header,
            Node("Pyld", <<
                Elem("Document", "",
                     << Attr("xmlns", "urn:iso:std:iso:20022:tech:xsd:auth.016.001.01"),
                        Attr("xmlns:xsi", XsiNamespace),
                        Attr("xsi:schemaLocation",
                             "urn:iso:std:iso:20022:tech:xsd:auth.016.001.01 auth.016.001.01_ESMAUG_Reporting_1.1.0.xsd") >>,
                     <<Node("FinInstrmRptgTxRpt", records)>>) >>) >>)

(***************************************************************************)
(* Inputs of generate_xml.                                                 *)
(***************************************************************************)
\* most rows a DataFrame of the model holds
MaxRows == 2

\* latest clock reading of the model
MaxClock == 1

\* str hashing is seeded per process: the seeds the model runs with
HashSeeds == {0, 1}

\* hash(str(row.to_dict())): within a process a function of the row's text,
\* small, large or negative depending on the seed
RowHash(seed, row) ==
    IF seed = 0 THEN 7 + Len(CellText(row[1].cell))
    ELSE 0 - (1001 + Len(CellText(row[2].cell)) + Len(CellText(row[4].cell)))

Columns == <<"id", "lei", "side", "taker", "maker", "isin", " px ", "blank">>

MakeRow(cells) == [ i \in 1..Len(Columns) |-> [col |-> Columns[i], cell |-> cells[i]] ]

RowPool ==
    << MakeRow(<< Some("txn-1"), Some("549300XYZABCDEFG5678"), Some("buy"),
                  Some("549300XYZABCDEFG5678"), Some("213800ABCDEFGHIJ1234"),
                  Some("US0231351067"), Some("144.01"), None >>),
       MakeRow(<< Some("--"), Some("2138005EFA978Y43G944"), Some(" SELL "),
                  Some("12345"), None, Some("  "), Some(" 7 "), None >>),
       MakeRow(<< Some("abcdefghijklmnopqrstuvwxyz0123456789abcdefghijklmnopqrstuvwxyz"),
                  Some("2138005EFA978Y43G_44"), Some("mtch"),
                  None, Some("213800ABCDEFGHIJ123"), None, Some("22:23.3"), None >>),
       MakeRow(<< Some(SmallEAcute \o "1"), Some("YOUR_FIRM_LEI_HERE"), Some("Buy"),
                  Some("2138005EFA978Y43G944"), Some("549300XYZABCDEFG5678"),
                  Some("us0231351067 "), Some("1990-05-17 00:00:00"), None >>) >>

\* n consecutive rows of the pool, starting at the k-th
FrameOf(k, n) == [ i \in 1..n |-> RowPool[((k + i - 2) % Len(RowPool)) + 1] ]

\* the DataFrames: every length up to MaxRows, the longest at two starts
FramePool == { FrameOf(1, n) : n \in 0..MaxRows } \cup { FrameOf(3, MaxRows) }

EmptyMapping == <<>>

FullMapping ==
    [ transaction_id |-> "id", executing_party |-> "lei",
      reporting_party_lei |-> "[Constant Value]", investment_party_ind |-> "[Constant Value]",
      transmission_indicator |-> "None", trade_datetime |-> "px", trading_capacity |-> "side",
      quantity |-> "px", price_amount |-> "px", price_currency |-> "[Constant Value]",
      trading_venue |-> "[Constant Value]", executing_person |-> "taker",
      short_sale_indicator |-> "side", securities_financing_indicator |-> "",
      instrument_isin |-> "isin", instrument_name |-> "id", classification_type |-> "[Constant Value]",
      notional_currency |-> "[Constant Value]", price_multiplier |-> "px", delivery_type |-> "None",
      buyer_lei |-> "lei", seller_lei |-> "maker",
      taker_side_ordertype_sellorbuy |-> "side", fills_taker_user_id |-> "taker",
      fills_maker_user_id |-> "maker",
      buyer_first_name |-> "id", buyer_last_name |-> "id", buyer_birth_date |-> "px",
      buyer_national_id |-> "taker", buyer_country |-> "[Constant Value]",
      seller_last_name |-> "None", seller_birth_date |-> "blank", seller_country |-> "nocol",
      investment_decision_person |-> "taker", execution_decision_algo |-> "id",
      client_ref |-> "id", desk |-> "[Constant Value]", book |-> "blank" ]

MappingBases == { EmptyMapping, FullMapping }

\* only the three fields of side inference are mapped
InferenceMapping ==
    [ taker_side_ordertype_sellorbuy |-> "side", fills_taker_user_id |-> "taker",
      fills_maker_user_id |-> "maker" ]

\* the fields whose mapping is varied one at a time
FocusFields ==
    { "transaction_id", "executing_party", "reporting_party_lei", "investment_party_ind",
      "transmission_indicator", "trade_datetime", "trading_capacity", "quantity",
      "price_amount", "price_currency", "trading_venue", "executing_person",
      "short_sale_indicator", "securities_financing_indicator", "instrument_isin",
      "buyer_lei", "seller_lei", "taker_side_ordertype_sellorbuy", "fills_taker_user_id",
      "investment_decision_person", "client_ref", "desk", "book" }

\* stands for "the key is not in field_mappings"
AbsentKey == "(absent)"

MappingTargets ==
    { AbsentKey, "None", "[Constant Value]", "nocol", "blank", "id", "lei" }

\* the mapping with one field's target replaced
Override(base, name, target) ==
    IF target = AbsentKey THEN Without(base, name)
    ELSE [ k \in DOMAIN base \cup {name} |-> IF k = name THEN target ELSE base[k] ]

NoConstants == <<>>

SomeConstants ==
    [ reporting_party_lei |-> "2138001ME4Z9Z8DZNS52", investment_party_ind |-> "false",
      price_currency |-> "EUR", trading_venue |-> "XOFF", instrument_isin |-> " ",
      transaction_id |-> "const id 9", buyer_lei |-> "2138005EFA978Y43G944",
      seller_lei |-> "SELLER_LEI_HERE", quantity |-> "", classification_type |-> "FFCPNO",
      buyer_country |-> "CY", desk |-> "B", client_ref |-> "",
      taker_side_ordertype_sellorbuy |-> "Sell ",
      from_org_id |-> "KD", biz_msg_id |-> "", creation_date |-> "2025-08-19T00:00:00Z" ]


\* a custom field whose element name is also a standard tag
Book == CustomField("book", "TxId", "ENUM", "REQUIRED", "Trading book", "MAIN",
                    Some(<<"MAIN", "HEDGE">>))

\* a registry built by three add_custom_field calls
ThreeFields ==
    add_custom_field(add_custom_field(add_custom_field(<<>>, Desk).fields, ClientRef).fields,
                     Book).fields

\* a constants table that supplies the whole envelope
EnvelopeConstants ==
    [ from_org_id |-> "KD", to_org_id |-> "CY", biz_msg_id |-> "MSG-0042",
      creation_date |-> "2025-08-19T00:00:00Z", trading_capacity |-> "Deal" ]

\* the constants and custom_field_manager arguments: no constants and no
\* manager, a constants table and a manager holding three fields, or the
\* envelope constants and no manager
ArgumentPool ==
    { [constants |-> NoConstants, manager |-> None],
      [constants |-> SomeConstants, manager |-> Some(ThreeFields)],
      [constants |-> EnvelopeConstants, manager |-> None] }

(***************************************************************************)
(* generate_xml as a state machine: the header, then one step per row of   *)
(* df.iterrows(), then the return.  Every step that reads the clock takes  *)
(* a reading not before the last one.                                      *)
(***************************************************************************)
InitGen ==
    /\ lastOp = NoOp
    /\ \E a \in ArgumentPool :
           /\ constants = a.constants
           /\ manager_given = (a.manager # None)
           /\ custom_fields = IF a.manager # None THEN a.manager[1] ELSE <<>>
    /\ df \in FramePool
    /\ \/ \E base \in MappingBases, name \in FocusFields, target \in MappingTargets :
              field_mappings = Override(base, name, target)
       \/ field_mappings = InferenceMapping
    /\ hash_seed \in (IF has_mapping("transaction_id", field_mappings) THEN {0} ELSE HashSeeds)
    /\ now = 0
    /\ pc = "header"
    /\ hdr = <<>>
    /\ txs = <<>>
    /\ reads = <<>>
    /\ result = <<>>
    /\ AutoIdle
    /\ CallIdle

ClockReadings == { t \in now..MaxClock : TRUE }

\* generate_xml up to the row loop: the root and _add_header
AddHeader ==
    /\ pc = "header"
    /\ \E t \in ClockReadings :
           /\ now' = t
           /\ hdr' = Some(add_header(constants, t))
    /\ pc' = "rows"
    /\ UNCHANGED <<custom_fields, lastOp, df, field_mappings, constants, manager_given,
                   txs, reads, hash_seed, result>>

\* whether _format_datetime(timestamp_str) calls datetime.now()
FormatReadsClock(timestamp_str) ==
    \/ timestamp_str = ""
    \/ /\ ~(Contains(timestamp_str, "T") /\ Contains(timestamp_str, "Z"))
       /\ Contains(timestamp_str, ":")
       /\ Len(timestamp_str) < PartialTimeMaxLen

\* _add_mifir_transaction calls datetime.now() for an unmapped transaction_id,
\* for an unmapped trade_datetime and for a mapped one that resolves to nothing
\* or to a bare time
ReadsClock(row) ==
    \/ ~has_mapping("transaction_id", field_mappings)
    \/ ~has_mapping("trade_datetime", field_mappings)
    \/ FormatReadsClock(get_mapped_value("trade_datetime", row, field_mappings, constants))

\* the rows of a frame, last first
ReversedRows(frame) == [ i \in 1..Len(frame) |-> frame[Len(frame) + 1 - i] ]

\* the rows generate_xml visits, in order
iterrows(frame) == frame

\* one iteration of the row loop: _add_mifir_transaction on the next row
AddTransaction ==
    /\ pc = "rows"
    /\ Len(txs) < Len(iterrows(df))
    /\ LET row == iterrows(df)[Len(txs) + 1] IN
       \E t \in (IF ReadsClock(row) THEN ClockReadings ELSE {now}) :
           /\ now' = t
           /\ txs' = Append(txs,
                  add_mifir_transaction(row, field_mappings, constants,
                                        IF manager_given THEN Some(custom_fields) ELSE None,
                                        t, RowHash(hash_seed, row)))
           /\ reads' = Append(reads, t)
    /\ UNCHANGED <<custom_fields, lastOp, df, field_mappings, constants, manager_given,
                   pc, hdr, hash_seed, result>>

\* the loop is over: the document is returned
ReturnDocument ==
    /\ pc = "rows"
    /\ Len(txs) = Len(iterrows(df))
    /\ result' = Some(document_root(hdr[1], txs))
    /\ pc' = "done"
    /\ UNCHANGED <<custom_fields, lastOp, df, field_mappings, constants, manager_given,
                   now, hdr, txs, reads, hash_seed>>

NextGen ==
    \/ AddHeader /\ UNCHANGED autoVars /\ UNCHANGED callVars
    \/ AddTransaction /\ UNCHANGED autoVars /\ UNCHANGED callVars
    \/ ReturnDocument /\ UNCHANGED autoVars /\ UNCHANGED callVars

SpecGen == InitGen /\ [][NextGen]_vars

(***************************************************************************)
(* Properties of generate_xml.                                             *)
(***************************************************************************)
\* the custom_field_manager argument of the call
ManagerArg == IF manager_given THEN Some(custom_fields) ELSE None

\* the children of FinInstrmRptgTxRpt in a document
RecordsOf(doc) == Kid(Kid(Kid(doc, "Pyld"), "Document"), "FinInstrmRptgTxRpt").kids

\* the New element of the i-th record built so far
NewOf(i) == txs[i].kids[1]

RECURSIVE CountTag(_, _)
RECURSIVE CountTagIn(_, _)
\* the number of elements with that tag in the tree of e, e included
CountTag(e, tag) == (IF e.tag = tag THEN 1 ELSE 0) + CountTagIn(e.kids, tag)

CountTagIn(elems, tag) ==
    IF elems = <<>> THEN 0 ELSE CountTag(Head(elems), tag) + CountTagIn(Tail(elems), tag)

\* C1 as stated: the returned document holds exactly one element named Tx per
\* input row, N in total.
C1_OneTxElementPerRow ==
    pc = "done" => CountTag(result[1], "Tx") = Len(df)

\* C1, amended: the returned document's FinInstrmRptgTxRpt has exactly one child
\* per input row, every child is a Tx record, and the i-th record is the one
\* _add_mifir_transaction builds from the i-th row; each record holds a second
\* element named Tx (the trade details under New), so the elements named Tx
\* are at least two per row.
C1_OneRecordPerRowInOrder ==
    /\ Len(txs) <= Len(df)
    /\ pc = "done" =>
          LET recs == RecordsOf(result[1]) IN
          /\ Len(recs) = Len(df)
          /\ \A i \in 1..Len(recs) :
                /\ recs[i].tag = "Tx"
                /\ recs[i] = add_mifir_transaction(df[i], field_mappings, constants, ManagerArg,
                                                   reads[i], RowHash(hash_seed, df[i]))
                /\ KidTags(recs[i]) = <<"New">>
                /\ recs[i].kids[1].kids[8].tag = "Tx"
          /\ CountTag(result[1], "Tx") >= 2 * Len(df)

C1_Witness ==
    /\ pc = "done"
    /\ Len(df) = MaxRows
    /\ Len(RecordsOf(result[1])) = MaxRows
    /\ RecordsOf(result[1])[1] # RecordsOf(result[1])[2]
    /\ CountTag(result[1], "Tx") > Len(df)

ElevenTags ==
    << "TxId", "ExctgPty", "InvstmtPtyInd", "SubmitgPty", "Buyr", "Sellr",
       "OrdrTrnsmssn", "Tx", "FinInstrm", "ExctgPrsn", "AddtlAttrbts" >>

\* the tags the registry's fields can put under New
CustomTags == { custom_fields[k].xml_element_name : k \in 1..Len(custom_fields) }

\* C2: the children of every record's New start with TxId, ExctgPty,
\* InvstmtPtyInd, SubmitgPty, Buyr, Sellr, OrdrTrnsmssn, Tx, FinInstrm,
\* ExctgPrsn, AddtlAttrbts, once each and in this order, whatever the mapping;
\* every child after the eleventh is a custom-field element.
C2_ElevenChildrenInOrder ==
    \A i \in 1..Len(txs) :
        LET tags == KidTags(NewOf(i)) IN
        /\ Len(tags) >= Len(ElevenTags)
        /\ SubSeq(tags, 1, Len(ElevenTags)) = ElevenTags
        /\ \A k \in (Len(ElevenTags) + 1)..Len(tags) :
              /\ manager_given
              /\ tags[k] \in CustomTags
        /\ SubSeq(NewOf(i).kids, Len(ElevenTags) + 1, Len(tags))
              = add_custom_fields(custom_fields, df[i], field_mappings, constants)

C2_Witness ==
    /\ pc = "done"
    /\ "transaction_id" \notin DOMAIN field_mappings
    /\ \E i \in 1..Len(txs) :
          /\ Len(NewOf(i).kids) > Len(ElevenTags) + 1
          /\ NewOf(i).kids[Len(ElevenTags) + 1].tag \in CustomTags

\* [A-Z0-9]{1,52}
MatchesTxIdPattern(s) ==
    /\ Len(s) \in 1..TxIdMaxLen
    /\ \A k \in 1..Len(s) : IsAsciiUpper(CharAt(s, k)) \/ IsAsciiDigit(CharAt(s, k))

\* C3: the TxId text of every record consists of the characters A-Z and 0-9
\* only and is 1 to 52 characters long, whether transaction_id is unmapped,
\* mapped to a column or mapped to a constant.
C3_TxIdMatchesPattern ==
    \A i \in 1..Len(txs) : MatchesTxIdPattern(NewOf(i).kids[1].text)

\* the AcctOwnr/Id element of a Buyr or Sellr element
OwnerId(party) == Kid(Kid(party, "AcctOwnr"), "Id")

\* the sub-structure C4 requires for a resolved identifier
RightOwnerForm(party, identifier) ==
    IF /\ Len(identifier) = LeiLength
       /\ \A k \in 1..Len(identifier) : IsAlnum(CharAt(identifier, k))
       /\ identifier \notin {"BUYER_LEI_HERE", "SELLER_LEI_HERE", "YOUR_FIRM_LEI_HERE"}
    THEN /\ KidTags(OwnerId(party)) = <<"LEI">>
         /\ OwnerId(party).kids[1].text = identifier
    ELSE KidTags(OwnerId(party)) = <<"Prsn">>

\* C4: in every record, Buyr and Sellr each hold under AcctOwnr/Id exactly an
\* LEI element carrying the resolved identifier when that identifier is 20
\* alphanumeric characters and no placeholder, and exactly a Prsn element
\* for every other resolved identifier.
C4_LeiOrPerson ==
    \A i \in 1..Len(txs) :
        /\ RightOwnerForm(Kid(NewOf(i), "Buyr"),
                          resolve_buyer_lei(df[i], field_mappings, constants))
        /\ RightOwnerForm(Kid(NewOf(i), "Sellr"),
                          resolve_seller_lei(df[i], field_mappings, constants))

C4_Witness ==
    \E i \in 1..Len(txs), j \in 1..Len(txs) :
        /\ Len(resolve_buyer_lei(df[i], field_mappings, constants)) = LeiLength
        /\ KidTags(OwnerId(Kid(NewOf(i), "Buyr"))) = <<"Prsn">>
        /\ resolve_buyer_lei(df[j], field_mappings, constants) = "YOUR_FIRM_LEI_HERE"
        /\ KidTags(OwnerId(Kid(NewOf(j), "Buyr"))) = <<"Prsn">>
        /\ KidTags(OwnerId(Kid(NewOf(j), "Sellr"))) = <<"LEI">>

\* instrument_isin is mapped and resolves to a non-blank value for the row
IsinGiven(row) ==
    /\ has_mapping("instrument_isin", field_mappings)
    /\ Strip(get_mapped_value("instrument_isin", row, field_mappings, constants)) # ""

Unresolvable(name, row) ==
    \/ name \notin DOMAIN field_mappings
    \/ field_mappings[name] \in {"", "None"}
    \/ /\ field_mappings[name] = "[Constant Value]"
       /\ name \notin DOMAIN constants
    \/ /\ field_mappings[name] # "[Constant Value]"
       /\ get_csv_value(row, field_mappings[name]) = ""

\* the text of the element at the end of a path of tags below e
RECURSIVE TextAt(_, _)
TextAt(e, path) == IF path = <<>> THEN e.text ELSE TextAt(Kid(e, Head(path)), Tail(path))

\* the elements that have one fixed default: the field, the path under New, the default
DefaultedElements ==
    { [field |-> "investment_party_ind", path |-> <<"InvstmtPtyInd">>, default |-> "true"],
      [field |-> "transmission_indicator", path |-> <<"OrdrTrnsmssn", "TrnsmssnInd">>, default |-> "false"],
      [field |-> "quantity", path |-> <<"Tx", "Qty", "Unit">>, default |-> "1.0"],
      [field |-> "price_amount", path |-> <<"Tx", "Pric", "Pric", "MntryVal", "Amt">>, default |-> "100.00"],
      [field |-> "trading_venue", path |-> <<"Tx", "TradVn">>, default |-> "XOFF"],
      [field |-> "executing_person", path |-> <<"ExctgPrsn", "Clnt">>, default |-> "NORE"],
      [field |-> "securities_financing_indicator", path |-> <<"AddtlAttrbts", "SctiesFincgTxInd">>,
       default |-> "false"] }

\* the Amt element of a record's New
AmtOf(new) == Kid(Kid(Kid(Kid(Kid(new, "Tx"), "Pric"), "Pric"), "MntryVal"), "Amt")

\* C6: in every record, each standard element that has a default carries that
\* default, and never an empty text, whenever its field's value is missing
\* for the row: InvstmtPtyInd, TrnsmssnInd, Qty/Unit, Amt and its Ccy
\* attribute, TradVn, ExctgPrsn/Clnt, SctiesFincgTxInd their fixed default,
\* ExctgPty and SubmitgPty a party identifier or the sentinel.
C6_MissingDataGetsDefault ==
    \A i \in 1..Len(txs) :
        LET new == NewOf(i) IN
        /\ \A d \in DefaultedElements :
              Unresolvable(d.field, df[i]) => TextAt(new, d.path) = d.default
        /\ Unresolvable("price_currency", df[i]) => AmtOf(new).attrs = <<Attr("Ccy", "USD")>>
        /\ Unresolvable("executing_party", df[i]) => TextAt(new, <<"ExctgPty">>) # ""
        /\ Unresolvable("reporting_party_lei", df[i]) => TextAt(new, <<"SubmitgPty">>) # ""

(***************************************************************************)
(* Custom fields in the primary assembler.                                 *)
(***************************************************************************)
\* the position of a category in required, conditional, optional, constant
CategoryRank(category) ==
    CASE category = "REQUIRED" -> 1
      [] category = "CONDITIONAL" -> 2
      [] category = "OPTIONAL" -> 3
      [] category = "CONSTANT" -> 4

\* the positions of the registry's fields that put an element in the record of a row
EmittingPositions(row) ==
    { k \in 1..Len(custom_fields) :
          custom_element(custom_fields[k], row, field_mappings, constants) # <<>> }

\* C11: in every record built with a registry, the custom-field elements
\* appear grouped by category, required first, then conditional, then
\* optional, then constant, whatever the order the fields were added in.
C11_CustomElementsByCategory ==
    \A i \in 1..Len(txs) :
        manager_given =>
            \A k \in EmittingPositions(df[i]), l \in EmittingPositions(df[i]) :
                k < l => CategoryRank(custom_fields[k].category)
                            <= CategoryRank(custom_fields[l].category)

(***************************************************************************)
(* custom_only_xml_generator.py: CustomOnlyXMLGenerator.                   *)
(***************************************************************************)
RECURSIVE get_custom_fields_by_category(_, _)
\* CustomFieldManager.get_custom_fields_by_category
get_custom_fields_by_category(fields, category) ==
    IF fields = <<>> THEN <<>>
    ELSE (IF Head(fields).category = category THEN <<Head(fields)>> ELSE <<>>)
         \o get_custom_fields_by_category(Tail(fields), category)

\* the fields in registry order, whatever their category
FieldsInRegistryOrder(fields) == fields

\* required + conditional + optional + constant fields of _add_custom_transaction
all_custom_fields(fields) ==
    get_custom_fields_by_category(fields, "REQUIRED")
    \o get_custom_fields_by_category(fields, "CONDITIONAL")
    \o get_custom_fields_by_category(fields, "OPTIONAL")
    \o get_custom_fields_by_category(fields, "CONSTANT")

\* the value _add_single_custom_field resolves for a field
single_custom_value(field, row, fm, consts) ==
    IF field.name \in DOMAIN fm
    THEN LET mapping == fm[field.name] IN
         IF mapping = "[Constant Value]" THEN DictGet(consts, field.name, field.default_value)
         ELSE IF mapping # "" /\ mapping # "None" THEN get_csv_value(row, mapping)
         ELSE field.default_value
    ELSE field.default_value

\* _add_single_custom_field: the element (none or one) put under New
add_single_custom_field(field, row, fm, consts) ==
    LET value == single_custom_value(field, row, fm, consts) IN
    IF value # "" \/ is_required(field)
    THEN <<Elem(field.xml_element_name,
                IF value # "" THEN value ELSE field.default_value,
                <<Attr("data-category", EnumValue(field.category))>>, <<>>)>>
    ELSE <<>>

RECURSIVE add_single_custom_fields(_, _, _, _)
\* the loop of _add_custom_transaction over the ordered fields
add_single_custom_fields(fields, row, fm, consts) ==
    IF fields = <<>> THEN <<>>
    ELSE add_single_custom_field(Head(fields), row, fm, consts)
         \o add_single_custom_fields(Tail(fields), row, fm, consts)

\* _add_custom_transaction: the Tx element appended to FinInstrmRptgTxRpt
add_custom_transaction(row, fm, consts, fields) ==
    Node("Tx", <<Node("New", add_single_custom_fields(all_custom_fields(fields), row, fm, consts))>>)

\* CustomOnlyXMLGenerator._add_header: the Hdr element, the clock reading being t
custom_only_add_header(consts, t) ==
    Node("Hdr", <<
        Elem("AppHdr", "",
             << Attr("xmlns", "urn:iso:std:iso:20022:tech:xsd:head.001.001.01"),
                Attr("xmlns:xsi", XsiNamespace),
                Attr("xsi:schemaLocation",
                     "urn:iso:std:iso:20022:tech:xsd:head.001.001.01 head.001.001.01_ESMAUG_1.0.0.xsd") >>,
             << OrgIdBlock("Fr", DictGet(consts, "from_org_id", "CUSTOM")),
                OrgIdBlock("To", DictGet(consts, "to_org_id", "CUSTOM")),
                Leaf("BizMsgIdr",
                     DictGet(consts, "biz_msg_id", "CUSTOM_FIELDS_" \o StrfCompactUnderscore(t))),
                Leaf("MsgDefIdr", "auth.016.001.01"),
                Leaf("CreDt", DictGet(consts, "creation_date", StrfIsoSeconds(t))) >>) >>)

(***************************************************************************)
(* generate_custom_xml as a state machine: the header, then one step per   *)
(* row of df.iterrows(), then the return.  Only the header reads the       *)
(* clock.                                                                  *)
(***************************************************************************)
Strategy == CustomField("strategy", "Strtgy", "STRING", "CONDITIONAL", "Strategy tag", "", None)

Region == CustomField("region", "Rgn", "STRING", "CONSTANT", "Booking region", "EU", None)

\* a registry holding all four categories, built by five add_custom_field calls
FiveFields ==
    add_custom_field(
        add_custom_field(
            add_custom_field(
                add_custom_field(add_custom_field(<<>>, Desk).fields, Region).fields,
                ClientRef).fields,
            Strategy).fields,
        Book).fields

\* the custom fields whose mapping is varied one at a time
CustomFocusFields == { "client_ref", "desk", "book", "strategy", "region" }

InitCustomOnly ==
    /\ lastOp = NoOp
    /\ custom_fields = FiveFields
    /\ manager_given = TRUE
    /\ constants \in {NoConstants, SomeConstants, EnvelopeConstants}
    /\ df \in FramePool
    /\ \E base \in MappingBases, name \in CustomFocusFields, target \in MappingTargets :
           field_mappings = Override(base, name, target)
    /\ hash_seed = 0
    /\ now = 0
    /\ pc = "custom_header"
    /\ hdr = <<>>
    /\ txs = <<>>
    /\ reads = <<>>
    /\ result = <<>>
    /\ AutoIdle
    /\ CallIdle

\* generate_custom_xml up to the row loop: the root and _add_header
AddCustomHeader ==
    /\ pc = "custom_header"
    /\ \E t \in ClockReadings :
           /\ now' = t
           /\ hdr' = Some(custom_only_add_header(constants, t))
    /\ pc' = "custom_rows"
    /\ UNCHANGED <<custom_fields, lastOp, df, field_mappings, constants, manager_given,
                   txs, reads, hash_seed, result>>

\* one iteration of the row loop: _add_custom_transaction on the next row
AddCustomTransaction ==
    /\ pc = "custom_rows"
    /\ Len(txs) < Len(iterrows(df))
    /\ txs' = Append(txs, add_custom_transaction(iterrows(df)[Len(txs) + 1], field_mappings,
                                                 constants, custom_fields))
    /\ reads' = Append(reads, now)
    /\ UNCHANGED <<custom_fields, lastOp, df, field_mappings, constants, manager_given,
                   now, pc, hdr, hash_seed, result>>

\* the loop is over: the document is returned
ReturnCustomDocument ==
    /\ pc = "custom_rows"
    /\ Len(txs) = Len(iterrows(df))
    /\ result' = Some(document_root(hdr[1], txs))
    /\ pc' = "custom_done"
    /\ UNCHANGED <<custom_fields, lastOp, df, field_mappings, constants, manager_given,
                   now, hdr, txs, reads, hash_seed>>

NextCustomOnly ==
    \/ AddCustomHeader /\ UNCHANGED autoVars /\ UNCHANGED callVars
    \/ AddCustomTransaction /\ UNCHANGED autoVars /\ UNCHANGED callVars
    \/ ReturnCustomDocument /\ UNCHANGED autoVars /\ UNCHANGED callVars

SpecCustomOnly == InitCustomOnly /\ [][NextCustomOnly]_vars

\* the four ways a custom field has no value for a row: unmapped, mapped to
\* None, mapped to a column the row lacks or to a blank cell, mapped to
\* [Constant Value] without an entry in the constants table
NoCustomValue(field, row) ==
    \/ field.name \notin DOMAIN field_mappings
    \/ field_mappings[field.name] \in {"", "None"}
    \/ /\ field_mappings[field.name] = "[Constant Value]"
       /\ field.name \notin DOMAIN constants
    \/ /\ field_mappings[field.name] # "[Constant Value]"
       /\ get_csv_value(row, field_mappings[field.name]) = ""

\* C12: in a record of the custom-only assembler, a required custom field
\* that has no value for the row and an empty default_value produces no
\* element.
C12_RequiredWithoutValueOmitted ==
    \A i \in 1..Len(txs) :
        pc \in {"custom_rows", "custom_done"} =>
            \A k \in 1..Len(custom_fields) :
                LET field == custom_fields[k] IN
                (is_required(field) /\ field.default_value = "" /\ NoCustomValue(field, df[i]))
                    => ~HasKid(NewOf(i), field.xml_element_name)

\* the children of the i-th record's New after the eleven standard ones
CustomKidsOf(i) == SubSeq(NewOf(i).kids, Len(ElevenTags) + 1, Len(NewOf(i).kids))

\* C13: in a record of the primary assembler, a required custom field with
\* no value for the row - unmapped or mapped to None included - is emitted
\* with its default_value when that default is non-empty, and is omitted
\* when the default is empty.
C13_RequiredGetsDefault ==
    \A i \in 1..Len(txs) :
        (manager_given /\ pc \in {"rows", "done"}) =>
            \A k \in 1..Len(custom_fields) :
                LET field == custom_fields[k]
                    emitted == { n \in 1..Len(CustomKidsOf(i)) :
                                     CustomKidsOf(i)[n].tag = field.xml_element_name }
                IN (is_required(field) /\ NoCustomValue(field, df[i])) =>
                       IF field.default_value # ""
                       THEN \E n \in emitted : CustomKidsOf(i)[n].text = field.default_value
                       ELSE emitted = {}

\* the field is mapped and its value for the row is not empty and fails validation
InvalidCustomValue(field, row) ==
    /\ has_mapping(field.name, field_mappings)
    /\ get_mapped_value(field.name, row, field_mappings, constants) # ""
    /\ ~validate_custom_field_values(field,
                                     get_mapped_value(field.name, row, field_mappings, constants))

\* C14: in a record of the primary assembler, a custom field whose value
\* fails validation is treated like an absent value: no element carries the
\* invalid value, a required field with a non-empty default_value is emitted
\* with the default, and any other field is omitted.
C14_InvalidValueIsAbsent ==
    \A i \in 1..Len(txs) :
        (manager_given /\ pc \in {"rows", "done"}) =>
            \A k \in 1..Len(custom_fields) :
                LET field == custom_fields[k]
                    emitted == { n \in 1..Len(CustomKidsOf(i)) :
                                     CustomKidsOf(i)[n].tag = field.xml_element_name }
                IN InvalidCustomValue(field, df[i]) =>
                       IF is_required(field) /\ field.default_value # ""
                       THEN /\ emitted # {}
                            /\ \A n \in emitted : CustomKidsOf(i)[n].text = field.default_value
                       ELSE emitted = {}

(***************************************************************************)
(* auto_mapper.py: AutoMapper.  The dataset is a DataFrame with at least   *)
(* one row, in the representation of df above; a cell holds str(value).    *)
(***************************************************************************)
\* needle in hay
StrIn(needle, hay) ==
    \E i \in 1..(Len(hay) - Len(needle) + 1) : SubSeq(hay, i, i + Len(needle) - 1) = needle

\* df.columns
raw_columns(frame) == [ j \in 1..Len(frame[1]) |-> frame[1][j].col ]

\* AutoMapper.columns
stripped_columns(frame) == [ j \in 1..Len(frame[1]) |-> Strip(frame[1][j].col) ]

\* the most unique values _get_column_samples keeps of a column
MaxSamples == 5

RECURSIVE UniqueInOrder(_, _)
\* Series.unique(): the values in the order of their first appearance
UniqueInOrder(values, seen) ==
    IF values = <<>> THEN <<>>
    ELSE IF Head(values) \in seen THEN UniqueInOrder(Tail(values), seen)
    ELSE <<Head(values)>> \o UniqueInOrder(Tail(values), seen \cup {Head(values)})

\* df[col].dropna() without the values that are blank
RECURSIVE KeptValues(_, _, _)
KeptValues(frame, j, i) ==
    IF i > Len(frame) THEN <<>>
    ELSE LET cell == frame[i][j].cell IN
         (IF cell # None /\ Strip(cell[1]) # "" THEN <<cell[1]>> ELSE <<>>)
             \o KeptValues(frame, j, i + 1)

\* _get_column_samples()[df.columns[j]]
samples_of_column(frame, j) ==
    LET unique == UniqueInOrder(KeptValues(frame, j, 1), {})
        kept == SubSeq(unique, 1, IF Len(unique) < MaxSamples THEN Len(unique) ELSE MaxSamples)
    IN  [ k \in 1..Len(kept) |-> Strip(kept[k]) ]

\* column_samples.get(col, []): the dictionary is keyed by the names of df.columns
\* (of two columns with one name the later one's entry stands)
column_samples_get(frame, col) ==
    LET hits == { j \in 1..Len(frame[1]) : frame[1][j].col = col } IN
        IF hits = {} THEN <<>>
        ELSE samples_of_column(frame, CHOOSE j \in hits : \A k \in hits : k <= j)

\* AutoMapper.mapping_patterns
mapping_patterns ==
    [ transaction_id |-> <<"trade_id", "tx_id", "transaction", "fill_id", "order_id">>,
      price_amount |-> <<"price", "amount", "rate", "px">>,
      quantity |-> <<"quantity", "qty", "size", "volume", "amount">>,
      execution_datetime |-> <<"timestamp", "time", "datetime", "date", "execution",
                               "trade_time">>,
      trade_datetime |-> <<"timestamp", "time", "datetime", "date", "trade_time">>,
      instrument_isin |-> <<"isin", "instrument", "symbol", "ticker", "product">>,
      buyer_lei |-> <<"buyer", "maker_user", "maker_id", "client_id">>,
      seller_lei |-> <<"seller", "taker_user", "taker_id", "counterparty">>,
      trading_capacity |-> <<"capacity", "role", "type">>,
      trading_venue |-> <<"venue", "exchange", "mic">>,
      buyer_fee |-> <<"maker_fee", "buyer_fee", "fee">>,
      seller_fee |-> <<"taker_fee", "seller_fee", "fee">>,
      short_sale_indicator |-> <<"position", "side", "long_short", "direction">>,
      clearing_indicator |-> <<"clearing", "cleared", "ccp">>,
      maker_order_id |-> <<"maker_order", "order_id">>,
      taker_order_id |-> <<"taker_order", "order_id">>,
      tech_record_id |-> <<"record_id", "system_id", "internal_id">> ]

\* the first column, patterns first and columns second, whose lower-cased name contains
\* the lower-cased pattern: None or Some(column)
first_containing(patterns, columns) ==
    LET hits == { <<p, c>> \in (1..Len(patterns)) \X (1..Len(columns)) :
                      StrIn(StrLower(patterns[p]), StrLower(columns[c])) }
    IN  IF hits = {} THEN None
        ELSE LET first == CHOOSE h \in hits :
                              \A g \in hits : h[1] < g[1] \/ (h[1] = g[1] /\ h[2] <= g[2])
             IN  Some(columns[first[2]])

\* _find_column_containing(patterns)
find_column_containing(frame, patterns) == first_containing(patterns, stripped_columns(frame))

(***************************************************************************)
(* difflib.SequenceMatcher(None, a, b) on strings shorter than 200         *)
(* characters (no junk, no popular characters).  Positions are 1-based and *)
(* ranges are closed.                                                      *)
(***************************************************************************)
RECURSIVE CommonRun(_, _, _, _, _, _)
\* how long a[i..ahi] and b[j..bhi] agree from their first characters on
CommonRun(a, b, i, ahi, j, bhi) ==
    IF i > ahi \/ j > bhi \/ CharAt(a, i) # CharAt(b, j) THEN 0
    ELSE 1 + CommonRun(a, b, i + 1, ahi, j + 1, bhi)

\* find_longest_match: the longest block, the earliest in a, then the earliest in b
find_longest_match(a, b, alo, ahi, blo, bhi) ==
    LET starts == (alo..ahi) \X (blo..bhi)
        run(st) == CommonRun(a, b, st[1], ahi, st[2], bhi)
        best == CHOOSE st \in starts :
                    \A other \in starts :
                        \/ run(st) > run(other)
                        \/ /\ run(st) = run(other)
                           /\ \/ st[1] < other[1]
                              \/ (st[1] = other[1] /\ st[2] <= other[2])
    IN  [ i |-> best[1], j |-> best[2], size |-> run(best) ]

RECURSIVE matching_characters(_, _, _, _, _, _)
\* the sum of the sizes of get_matching_blocks()
matching_characters(a, b, alo, ahi, blo, bhi) ==
    IF alo > ahi \/ blo > bhi THEN 0
    ELSE LET m == find_longest_match(a, b, alo, ahi, blo, bhi) IN
         IF m.size = 0 THEN 0
         ELSE m.size + matching_characters(a, b, alo, m.i - 1, blo, m.j - 1)
                     + matching_characters(a, b, m.i + m.size, ahi, m.j + m.size, bhi)

\* ratio() as the fraction 2 * matches / length it is computed from
ratio(a, b) ==
    [ matches |-> matching_characters(a, b, 1, Len(a), 1, Len(b)),
      length |-> Len(a) + Len(b) ]

\* score > 0.6 for a score 2.0 * matches / length with length > 0
AboveThreshold(score) == 10 * score.matches > 3 * score.length

\* left > right for two such scores
ScoreGreater(left, right) == left.matches * right.length > right.matches * left.length

\* the fuzzy loop of _find_best_column_match: the first pair, patterns first and columns
\* second, with the greatest score above the threshold
best_fuzzy_match(patterns, columns) ==
    LET pairs == (1..Len(patterns)) \X (1..Len(columns))
        score(pr) == ratio(StrLower(patterns[pr[1]]), StrLower(columns[pr[2]]))
        good == { pr \in pairs : AboveThreshold(score(pr)) }
        top == { pr \in good : \A other \in good : ~ScoreGreater(score(other), score(pr)) }
    IN  IF top = {} THEN None
        ELSE LET first == CHOOSE h \in top :
                              \A g \in top : h[1] < g[1] \/ (h[1] = g[1] /\ h[2] <= g[2])
             IN  Some(columns[first[2]])

\* a name match that walks the columns first and the synonyms second
ColumnFirstMatch(frame, field_name) ==
    IF field_name \notin DOMAIN mapping_patterns THEN None
    ELSE LET patterns == mapping_patterns[field_name]
             columns == stripped_columns(frame)
             hits == { c \in 1..Len(columns) :
                           \E p \in 1..Len(patterns) :
                               StrIn(StrLower(patterns[p]), StrLower(columns[c])) }
         IN  IF hits # {} THEN Some(columns[CHOOSE c \in hits : \A d \in hits : c <= d])
             ELSE LET fuzzy == best_fuzzy_match(patterns, columns) IN
                  IF fuzzy # None /\ fuzzy[1] # "" THEN fuzzy ELSE None

\* _find_best_column_match(mifir_field): None or Some(column)
find_best_column_match(frame, field_name) ==
    IF field_name \notin DOMAIN mapping_patterns THEN None
    ELSE LET patterns == mapping_patterns[field_name]
             exact == first_containing(patterns, stripped_columns(frame))
         IN  IF exact # None THEN exact
             ELSE LET fuzzy == best_fuzzy_match(patterns, stripped_columns(frame)) IN
                  IF fuzzy # None /\ fuzzy[1] # "" THEN fuzzy ELSE None

(***************************************************************************)
(* The content pass.  The regular expressions of value_patterns are        *)
(* written out as predicates on 7-bit text.                                *)
(***************************************************************************)
RECURSIVE JoinWithSpace(_)
\* ' '.join(samples)
JoinWithSpace(samples) ==
    IF samples = <<>> THEN ""
    ELSE IF Len(samples) = 1 THEN samples[1]
    ELSE samples[1] \o " " \o JoinWithSpace(Tail(samples))

IsAsciiLetter(c) == IsAsciiUpper(c) \/ IsAsciiLower(c)

IsAsciiAlnum(c) == IsAsciiLetter(c) \/ IsAsciiDigit(c)

\* re.search(r'^[A-Z0-9]{18}[0-9]{2}$', text, re.IGNORECASE)
matches_lei_pattern(text) ==
    /\ Len(text) = LeiLength
    /\ \A i \in 1..(LeiLength - 2) : IsAsciiAlnum(CharAt(text, i))
    /\ \A i \in (LeiLength - 1)..LeiLength : IsAsciiDigit(CharAt(text, i))

\* the length of an ISIN in isin_pattern
IsinLength == 12

\* re.search(r'^[A-Z]{2}[A-Z0-9]{9}[0-9]$', text, re.IGNORECASE)
matches_isin_pattern(text) ==
    /\ Len(text) = IsinLength
    /\ \A i \in 1..2 : IsAsciiLetter(CharAt(text, i))
    /\ \A i \in 3..(IsinLength - 1) : IsAsciiAlnum(CharAt(text, i))
    /\ IsAsciiDigit(CharAt(text, IsinLength))

\* re.search(r'\d{1,2}:\d{1,2}', text)
matches_timestamp_pattern(text) ==
    \E i \in 2..(Len(text) - 1) :
        /\ CharAt(text, i) = ":"
        /\ IsAsciiDigit(CharAt(text, i - 1))
        /\ IsAsciiDigit(CharAt(text, i + 1))

\* re.match(r'^(true|false|0|1|y|n|yes|no)$', sample, re.IGNORECASE)
matches_boolean_pattern(sample) == StrLower(sample) \in BooleanTokens

DigitValue(c) == CHOOSE d \in 0..9 : CharAt(Digits09, d + 1) = c

RECURSIVE DigitsValue(_)
\* the number a string of decimal digits writes, 0 for ""
DigitsValue(digits) ==
    IF digits = "" THEN 0
    ELSE 10 * DigitsValue(SubSeq(digits, 1, Len(digits) - 1))
             + DigitValue(CharAt(digits, Len(digits)))

\* float(sample) in thousandths, for a sample that is a decimal without exponent and
\* with at most three decimals (every sample of the datasets below that parses is one)
Thousandths(sample) ==
    LET text == Strip(sample)
        body == Unsigned(text)
        frac == AfterFirst(body, {"."})
        padded == SubSeq(frac \o "000", 1, 3)
        magnitude == 1000 * DigitsValue(UpToFirst(body, {"."})) + DigitsValue(padded)
    IN  IF text # "" /\ Head(text) = "-" THEN 0 - magnitude ELSE magnitude

RECURSIVE SumThousandths(_)
SumThousandths(samples) ==
    IF samples = <<>> THEN 0
    ELSE (IF FloatParses(Head(samples)) THEN Thousandths(Head(samples)) ELSE 0)
             + SumThousandths(Tail(samples))

NumericCount(samples) == Cardinality({ i \in 1..Len(samples) : FloatParses(samples[i]) })

\* _is_price_column(samples): the average of the numeric samples is in (1, 1000000)
is_price_column(samples) ==
    /\ NumericCount(samples) > 0
    /\ SumThousandths(samples) > 1000 * NumericCount(samples)
    /\ SumThousandths(samples) < 1000 * 1000000 * NumericCount(samples)

\* _is_quantity_column(samples): the average of the numeric samples is in (0, 100]
is_quantity_column(samples) ==
    /\ NumericCount(samples) > 0
    /\ SumThousandths(samples) > 0
    /\ SumThousandths(samples) <= 1000 * 100 * NumericCount(samples)

\* suggestions[key] = value
dict_set(dict, key, value) ==
    [ k \in DOMAIN dict \cup {key} |-> IF k = key THEN value ELSE dict[k] ]

\* suggestions.values()
dict_values(dict) == { dict[k] : k \in DOMAIN dict }

\* suggestions[first] = col if first is not a key, else suggestions[second] = col if
\* second is not a key
set_first_free(dict, first, second, col) ==
    IF first \notin DOMAIN dict THEN dict_set(dict, first, col)
    ELSE IF second \notin DOMAIN dict THEN dict_set(dict, second, col)
    ELSE dict

\* one iteration of the loop of _analyze_content_patterns: the j-th item of column_samples
analyze_column(frame, j, sugg) ==
    LET col == raw_columns(frame)[j]
        samples == column_samples_get(frame, col)
        sample_str == JoinWithSpace(samples)
    IN  IF samples = <<>> \/ col \in dict_values(sugg) THEN sugg
        ELSE IF matches_lei_pattern(sample_str)
            THEN set_first_free(sugg, "buyer_lei", "seller_lei", col)
        ELSE IF matches_isin_pattern(sample_str)
            THEN set_first_free(sugg, "instrument_isin", "instrument_isin", col)
        ELSE IF matches_timestamp_pattern(sample_str)
            THEN set_first_free(sugg, "execution_datetime", "trade_datetime", col)
        ELSE IF is_price_column(samples)
            THEN set_first_free(sugg, "price_amount", "price_amount", col)
        ELSE IF is_quantity_column(samples)
            THEN set_first_free(sugg, "quantity", "quantity", col)
        ELSE IF \A i \in 1..Len(samples) : matches_boolean_pattern(samples[i])
            THEN IF StrIn("clear", StrLower(col))
                 THEN set_first_free(sugg, "clearing_indicator", "clearing_indicator", col)
                 ELSE sugg
        ELSE sugg

\* 'buy' in str(sample).lower() for some sample
any_buy(samples) == \E i \in 1..Len(samples) : StrIn("buy", StrLower(samples[i]))

\* _apply_logical_relationships(suggestions)
apply_logical_relationships(frame, sugg) ==
    LET timestamp_col == DictGet(sugg, "execution_datetime", "")
        with_trade == IF timestamp_col # "" /\ "trade_datetime" \notin DOMAIN sugg
                      THEN dict_set(sugg, "trade_datetime", timestamp_col)
                      ELSE sugg
        taker_user_col == find_column_containing(frame, <<"taker_user", "taker_id">>)
        maker_user_col == find_column_containing(frame, <<"maker_user", "maker_id">>)
        side_col == find_column_containing(frame, <<"ordertype", "side", "buy_sell">>)
    IN  IF taker_user_col # None /\ maker_user_col # None /\ side_col # None
        THEN IF any_buy(column_samples_get(frame, side_col[1]))
             THEN dict_set(dict_set(with_trade, "buyer_lei", taker_user_col[1]),
                           "seller_lei", maker_user_col[1])
             ELSE dict_set(dict_set(with_trade, "buyer_lei", maker_user_col[1]),
                           "seller_lei", taker_user_col[1])
        ELSE with_trade

(***************************************************************************)
(* The datasets auto_suggest_mappings is run on.                           *)
(***************************************************************************)
\* MIFIR_FIELDS in the order of the list
MIFIR_FIELD_ORDER ==
    << "reporting_party_lei", "report_action_type", "tech_record_id",
       "instrument_isin", "instrument_cfi", "execution_datetime",
       "trade_datetime", "settlement_date", "trading_venue",
       "trading_capacity", "price_amount", "price_currency", "quantity",
       "buyer_lei", "buyer_national_id", "buyer_first_name",
       "buyer_last_name", "buyer_birth_date", "buyer_country", "seller_lei",
       "seller_national_id", "seller_first_name", "seller_last_name",
       "seller_birth_date", "seller_country", "investment_decision_person",
       "investment_decision_algo", "execution_decision_person",
       "execution_decision_algo", "short_sale_indicator",
       "commodity_derivative_indicator", "clearing_indicator",
       "securities_financing_indicator", "country_of_branch",
       "investment_firm_covered", "transaction_id" >>

\* a DataFrame with the given column names and one row per tuple of values
Dataset(names, rows) ==
    [ i \in 1..Len(rows) |->
        [ j \in 1..Len(names) |-> [col |-> names[j], cell |-> Some(rows[i][j])] ] ]

TakerLei == "549300XYZABCDEFG5678"

MakerLei == "213800ABCDEFGHIJ1234"

TradeColumns == <<"trade_id", "taker_user", "maker_user", "side", "price">>

PaddedTradeColumns == <<"trade_id", " taker_user ", " maker_user ", " side ", "price">>

BuyThenSell ==
    << <<"t1", TakerLei, MakerLei, "buy", "100.5">>,
       <<"t2", TakerLei, MakerLei, "sell", "99">> >>

SellOnly ==
    << <<"t1", TakerLei, MakerLei, "sell", "100.5">>,
       <<"t2", TakerLei, MakerLei, " sell ", "99">> >>

DatasetPool ==
    { Dataset(TradeColumns, BuyThenSell),
      Dataset(TradeColumns, SellOnly),
      Dataset(PaddedTradeColumns, BuyThenSell),
      Dataset(PaddedTradeColumns, SellOnly),
      \* no maker column
      Dataset(<<"trade_id", "taker_user", "side", "buyer", "seller">>, BuyThenSell),
      \* the name pass gives buyer_lei and seller_lei to other columns first
      Dataset(<<"buyer", "seller", "Taker_ID", "Maker_ID", "OrderType">>,
              << <<MakerLei, TakerLei, TakerLei, MakerLei, "BUY">> >>),
      \* the only value with "buy" is the sixth unique one
      Dataset(<<"taker_id", "maker_id", "buy_sell">>,
              << <<TakerLei, MakerLei, "sell">>, <<TakerLei, MakerLei, "SELL">>,
                 <<TakerLei, MakerLei, "Sell">>, <<TakerLei, MakerLei, "ask">>,
                 <<TakerLei, MakerLei, "offer">>, <<TakerLei, MakerLei, "buy">> >>),
      \* columns only the content pass recognises
      Dataset(<<"a", "b", "ts", "p", "q", "was_it_clear_flag", "code">>,
              << <<TakerLei, MakerLei, "22:23.3", "100.5", "0.5", "yes", "US0231351067">> >>),
      \* columns only the similarity fallback recognises
      Dataset(<<"buyr", "sellr", "amt">>, << <<TakerLei, MakerLei, "7">> >>),
      \* columns that contain later synonyms stand before columns that contain earlier ones
      Dataset(<<"trade_date", "Timestamp", "px_amount", "Price", "price_usd", "venu">>,
              << <<"2025-08-19", "22:23.3", "5", "100.5", "100.5", "XOFF">> >>),
      \* a column of two different identifiers before a column of one
      Dataset(<<"a", "b", "c">>,
              << <<TakerLei, MakerLei, TakerLei>>, <<MakerLei, MakerLei, TakerLei>> >>) }

(***************************************************************************)
(* auto_suggest_mappings as a state machine: one step per MIFIR field of   *)
(* the name pass, one step per column of the content pass, then the        *)
(* logical pass and the return.                                            *)
(***************************************************************************)
InitAuto ==
    /\ custom_fields = <<>>
    /\ lastOp = NoOp
    /\ df \in DatasetPool
    /\ field_mappings = <<>>
    /\ constants = <<>>
    /\ manager_given = FALSE
    /\ now = 0
    /\ pc = "idle"
    /\ hdr = <<>>
    /\ txs = <<>>
    /\ reads = <<>>
    /\ hash_seed = 0
    /\ result = <<>>
    /\ suggestions = <<>>
    /\ mapper_pc = "names"
    /\ cursor = 0
    /\ CallIdle

\* one iteration of the first loop: _find_best_column_match on the next field
MatchNextField ==
    /\ mapper_pc = "names"
    /\ LET name == MIFIR_FIELD_ORDER[cursor + 1]
           best_match == find_best_column_match(df, name)
       IN  suggestions' = IF best_match # None
                          THEN dict_set(suggestions, name, best_match[1])
                          ELSE suggestions
    /\ IF cursor + 1 < Len(MIFIR_FIELD_ORDER)
       THEN cursor' = cursor + 1 /\ mapper_pc' = mapper_pc
       ELSE cursor' = 0 /\ mapper_pc' = "content"
    /\ UNCHANGED <<regVars, genVars>>

\* one iteration of the loop of _analyze_content_patterns
AnalyzeNextColumn ==
    /\ mapper_pc = "content"
    /\ suggestions' = analyze_column(df, cursor + 1, suggestions)
    /\ IF cursor + 1 < Len(raw_columns(df))
       THEN cursor' = cursor + 1 /\ mapper_pc' = mapper_pc
       ELSE cursor' = 0 /\ mapper_pc' = "logic"
    /\ UNCHANGED <<regVars, genVars>>

\* _apply_logical_relationships, and the return of the suggestions
ApplyLogicalRelationships ==
    /\ mapper_pc = "logic"
    /\ suggestions' = apply_logical_relationships(df, suggestions)
    /\ mapper_pc' = "returned"
    /\ UNCHANGED <<cursor, regVars, genVars>>

NextAuto ==
    \/ MatchNextField /\ UNCHANGED callVars
    \/ AnalyzeNextColumn /\ UNCHANGED callVars
    \/ ApplyLogicalRelationships /\ UNCHANGED callVars

SpecAuto == InitAuto /\ [][NextAuto]_vars

\* C15: once auto_suggest_mappings has returned on a dataset with a taker column, a
\* maker column and a side column, buyer_lei is the taker column and seller_lei the
\* maker column if a sampled value of the side column contains "buy", and the other way
\* round if none does.
SideColumnSamples ==
    LET side_col == find_column_containing(df, <<"ordertype", "side", "buy_sell">>)
        j == CHOOSE k \in 1..Len(df[1]) : Strip(df[1][k].col) = side_col[1]
    IN  samples_of_column(df, j)

C15_SideDecidesBuyerAndSeller ==
    LET taker == find_column_containing(df, <<"taker_user", "taker_id">>)
        maker == find_column_containing(df, <<"maker_user", "maker_id">>)
        side == find_column_containing(df, <<"ordertype", "side", "buy_sell">>)
    IN  (mapper_pc = "returned" /\ taker # None /\ maker # None /\ side # None)
        => /\ {"buyer_lei", "seller_lei"} \subseteq DOMAIN suggestions
           /\ IF any_buy(SideColumnSamples)
              THEN suggestions["buyer_lei"] = taker[1] /\ suggestions["seller_lei"] = maker[1]
              ELSE suggestions["buyer_lei"] = maker[1] /\ suggestions["seller_lei"] = taker[1]

(***************************************************************************)
(* _format_datetime called on its own: the argument is drawn from a pool   *)
(* of texts, the clock is read in the branches that read it.               *)
(***************************************************************************)
\* the characters the branches of _format_datetime look for, and one they do not
TimestampAlphabet == {"T", "Z", ":", "3"}

\* longest text built from the alphabet
MaxTimestampLen == 3

RECURSIVE TextsUpTo(_, _)
\* the texts of at most n characters of the alphabet
TextsUpTo(alphabet, n) ==
    IF n = 0 THEN {""}
    ELSE LET shorter == TextsUpTo(alphabet, n - 1) IN
         shorter \cup { c \o text : c \in alphabet, text \in { x \in shorter : Len(x) = n - 1 } }

TimestampPool ==
    TextsUpTo(TimestampAlphabet, MaxTimestampLen)
        \cup { "22:23.3", "22:23:45.12345", "22:23:45.123456", "1990-05-17 00:00:00",
               "2025-08-19T22:23:45.123Z", "2025-08-19 22:23", "144.01", "12:00 UTC+Z" }

InitFormat ==
    /\ custom_fields = <<>>
    /\ lastOp = NoOp
    /\ GenIdle
    /\ AutoIdle
    /\ call \in { Some([fn |-> "_format_datetime", timestamp_str |-> text]) :
                      text \in TimestampPool }
    /\ returned = <<>>

\* the call of _format_datetime
FormatDatetime ==
    /\ call # None
    /\ call[1].fn = "_format_datetime"
    /\ returned = None
    /\ \E t \in (IF FormatReadsClock(call[1].timestamp_str) THEN ClockReadings ELSE {now}) :
           /\ now' = t
           /\ returned' = Some(format_datetime(call[1].timestamp_str, t))
    /\ UNCHANGED <<custom_fields, lastOp, df, field_mappings, constants, manager_given, pc,
                   hdr, txs, reads, hash_seed, result, call>>

NextFormat ==
    \/ FormatDatetime /\ UNCHANGED autoVars

SpecFormat == InitFormat /\ [][NextFormat]_vars

\* the text the claim gives for a bare time fragment read at clock reading t
DatedFragment(fragment, t) == StrfDate(t) \o "T" \o fragment \o ":00.000Z"

generate_xml_at(frame, fm, consts, manager, seed, t) ==
    document_root(add_header(consts, t),
                  [ i \in 1..Len(iterrows(frame)) |->
                      add_mifir_transaction(iterrows(frame)[i], fm, consts, manager, t,
                                            RowHash(seed, iterrows(frame)[i])) ])

\* a finished call with transaction_id mapped and biz_msg_id and creation_date supplied
EnvelopeSupplied ==
    /\ pc = "done"
    /\ has_mapping("transaction_id", field_mappings)
    /\ {"biz_msg_id", "creation_date"} \subseteq DOMAIN constants

TradeDateFromData ==
    /\ has_mapping("trade_datetime", field_mappings)
    /\ \A i \in 1..Len(df) :
           LET value == get_mapped_value("trade_datetime", df[i], field_mappings, constants)
           IN  /\ value # ""
               /\ \/ (\E k \in 1..Len(value) : CharAt(value, k) = "T")
                        /\ (\E k \in 1..Len(value) : CharAt(value, k) = "Z")
                  \/ ~(\E k \in 1..Len(value) : CharAt(value, k) = ":")
                  \/ Len(value) >= 15

AppHdrText(header, tag) == Kid(Kid(header, "AppHdr"), tag).text

\* C18: the header generate_custom_xml builds is the header generate_xml builds from the
\* same constants at the same clock reading, and its MsgDefIdr is auth.016.001.01.
C18_HeadersIdentical ==
    (pc \in {"custom_rows", "custom_done"} /\ hdr # None)
    => /\ hdr[1] = add_header(constants, now)
       /\ AppHdrText(hdr[1], "MsgDefIdr") = "auth.016.001.01"

(***************************************************************************)
(* validate_custom_field_values called on its own, on a field of every     *)
(* type and category, with and without enum_values, and a value of a pool. *)
(***************************************************************************)
EnumValuesPool == { None, Some(<<>>), Some(<<"MAIN", "HEDGE">>) }

ValidatedFields ==
    { CustomField("probe", "Prb", type, category, "A field to validate", "", enums) :
          type \in CustomFieldType, category \in CustomFieldCategory, enums \in EnumValuesPool }

ValidatedValues ==
    { "", " ", "true", "TRUE", "Yes", " true", "n", "0", "1", "2", "maybe", "MAIN", "main",
      "HEDGE", "1.5", "2025-08-19T08:22:23.294Z" }

InitValidate ==
    /\ custom_fields = <<>>
    /\ lastOp = NoOp
    /\ GenIdle
    /\ AutoIdle
    /\ call \in { Some([fn |-> "validate_custom_field_values", field |-> f, value |-> v]) :
                      f \in ValidatedFields, v \in ValidatedValues }
    /\ returned = <<>>

\* the call of validate_custom_field_values; what is kept is the first component
ValidateValue ==
    /\ call # None
    /\ call[1].fn = "validate_custom_field_values"
    /\ returned = None
    /\ returned' = Some(validate_custom_field_values(call[1].field, call[1].value))
    /\ UNCHANGED <<regVars, genVars, call>>

NextValidate ==
    \/ ValidateValue /\ UNCHANGED autoVars

SpecValidate == InitValidate /\ [][NextValidate]_vars

\* a call of validate_custom_field_values has returned
Validated == call # None /\ call[1].fn = "validate_custom_field_values" /\ returned # None

\* value is one of the field's enum_values
MemberOfEnumValues(field, value) ==
    /\ field.enum_values # None
    /\ \E i \in 1..Len(field.enum_values[1]) : field.enum_values[1][i] = value

\* the statement as the specification words it: as C19 below, but a non-empty value of
\* an enum field is valid exactly when it is a member of enum_values
C19_EnumValidIffMember ==
    Validated
    => LET field == call[1].field
           value == call[1].value
       IN  /\ value = "" => (returned[1] <=> field.category # "REQUIRED")
           /\ (value # "" /\ field.field_type = "BOOLEAN")
                  => (returned[1] <=> StrLower(value) \in
                          {"true", "false", "1", "0", "yes", "no", "y", "n"})
           /\ (value # "" /\ field.field_type = "ENUM")
                  => (returned[1] <=> MemberOfEnumValues(field, value))
           /\ (value # "" /\ field.field_type = "STRING") => returned[1]

\* C19: an empty value is valid exactly when the field is not required; a non-empty value
\* of a boolean field exactly when its lower-cased form is a boolean token; a non-empty
\* value of an enum field exactly when the field has no enum_values or the value is one of
\* them; a non-empty value of a string field always.
C19_ValidationCases ==
    Validated
    => LET field == call[1].field
           value == call[1].value
       IN  /\ value = "" => (returned[1] <=> field.category # "REQUIRED")
           /\ (value # "" /\ field.field_type = "BOOLEAN")
                  => (returned[1] <=> StrLower(value) \in
                          {"true", "false", "1", "0", "yes", "no", "y", "n"})
           /\ (value # "" /\ field.field_type = "ENUM")
                  => (returned[1] <=> \/ field.enum_values = None
                                      \/ field.enum_values = Some(<<>>)
                                      \/ MemberOfEnumValues(field, value))
           /\ (value # "" /\ field.field_type = "STRING") => returned[1]

\* a value was found valid for an enum field that lists no values
C19_Witness ==
    /\ Validated
    /\ call[1].field.field_type = "ENUM"
    /\ call[1].field.enum_values = None
    /\ call[1].field.category = "REQUIRED"
    /\ call[1].value = "maybe"
    /\ returned = Some(TRUE)

\* the TradgCpcty text of the i-th record built so far
TradgCpctyOf(i) == Kid(Kid(NewOf(i), "Tx"), "TradgCpcty").text

TradingCapacities == {"DEAL", "MTCH", "AOTC"}

\* the capacity the text names, letter case apart: None or Some(capacity)
NamedCapacity(text) ==
    IF \E c \in TradingCapacities : StrLower(text) = StrLower(c)
    THEN Some(CHOOSE c \in TradingCapacities : StrLower(text) = StrLower(c))
    ELSE None

DocumentLei(party) ==
    IF KidTags(OwnerId(party)) = <<"LEI">> THEN OwnerId(party).kids[1].text ELSE ""

\* C21: in every record, Buyr holds a DcsnMakr and Sellr an ExctnWthnFirm only if the
\* resolved identifier of that party is the own-firm identifier 2138005EFA978Y43G944.
C21_DecisionMakersOnlyForOwnFirm ==
    \A i \in 1..Len(txs) :
        /\ HasKid(Kid(NewOf(i), "Buyr"), "DcsnMakr")
               => /\ resolve_buyer_lei(df[i], field_mappings, constants) = "2138005EFA978Y43G944"
                  /\ DocumentLei(Kid(NewOf(i), "Buyr")) = "2138005EFA978Y43G944"
        /\ HasKid(Kid(NewOf(i), "Sellr"), "ExctnWthnFirm")
               => /\ resolve_seller_lei(df[i], field_mappings, constants) = "2138005EFA978Y43G944"
                  /\ DocumentLei(Kid(NewOf(i), "Sellr")) = "2138005EFA978Y43G944"

\* a returned document in which the own firm's Buyr holds a DcsnMakr and another
\* legal entity's Buyr, under the same mapping of investment_decision_person, holds none
C21_Witness ==
    /\ pc = "done"
    /\ has_mapping("investment_decision_person", field_mappings)
    /\ \E i \in 1..Len(txs), j \in 1..Len(txs) :
           /\ HasKid(Kid(NewOf(i), "Buyr"), "DcsnMakr")
           /\ ~HasKid(Kid(NewOf(j), "Buyr"), "DcsnMakr")
           /\ DocumentLei(Kid(NewOf(j), "Buyr")) = "549300XYZABCDEFG5678"

\* the position in the registry of the field an element of New was made for: the field
\* whose xml_element_name is the element's tag (0 if there is none)
FieldPositionOf(element) ==
    IF \E k \in 1..Len(custom_fields) : custom_fields[k].xml_element_name = element.tag
    THEN CHOOSE k \in 1..Len(custom_fields) : custom_fields[k].xml_element_name = element.tag
    ELSE 0

\* the data-category text of a category
CategoryText(category) ==
    CASE category = "REQUIRED" -> "required"
      [] category = "CONDITIONAL" -> "conditional"
      [] category = "OPTIONAL" -> "optional"
      [] category = "CONSTANT" -> "constant"

\* C22: in the custom-only document every child of every New is the element of a custom
\* field and carries that field's category as its data-category attribute, and the
\* children follow each other by category (required, conditional, optional, constant) and
\* by registry position within a category.
C22_OnlyCustomElementsByCategory ==
    \A i \in 1..Len(txs) :
        pc \in {"custom_rows", "custom_done"} =>
            LET kids == txs[i].kids[1].kids IN
            /\ txs[i].tag = "Tx" /\ KidTags(txs[i]) = <<"New">>
            /\ \A k \in 1..Len(kids) :
                   /\ FieldPositionOf(kids[k]) # 0
                   /\ kids[k].attrs =
                          << [name |-> "data-category",
                              value |-> CategoryText(custom_fields[FieldPositionOf(kids[k])].category)] >>
            /\ \A k \in 1..Len(kids), l \in 1..Len(kids) :
                   k < l =>
                       LET first == custom_fields[FieldPositionOf(kids[k])]
                           second == custom_fields[FieldPositionOf(kids[l])]
                       IN  \/ CategoryRank(first.category) < CategoryRank(second.category)
                           \/ /\ first.category = second.category
                              /\ FieldPositionOf(kids[k]) < FieldPositionOf(kids[l])

\* a returned document whose first New holds elements of all four categories, two of them
\* required
C22_Witness ==
    /\ pc = "custom_done"
    /\ Len(txs) >= 1
    /\ KidTags(txs[1].kids[1]) = <<"ClntRef", "TxId", "Strtgy", "Desk", "Rgn">>

\* the side value as the resolution rule names it: the mapped value of
\* taker_side_ordertype_sellorbuy, trimmed and lower-cased
TrimmedSide(row) ==
    StrLower(Strip(get_mapped_value("taker_side_ordertype_sellorbuy", row, field_mappings, constants)))

\* the identifier of the role a side value selects: the taker when the side is the one
\* asked for, the maker otherwise
RoleIdentifier(row, asked) ==
    IF TrimmedSide(row) = asked
    THEN get_mapped_value("fills_taker_user_id", row, field_mappings, constants)
    ELSE get_mapped_value("fills_maker_user_id", row, field_mappings, constants)

\* the directly mapped identifier if it is not empty, else the role identifier if it is
\* not empty, else the sentinel
ResolvedInOrder(direct, role, sentinel) ==
    IF direct # "" THEN direct ELSE IF role # "" THEN role ELSE sentinel

\* C23: in every record the buyer identifier is the non-empty direct buyer_lei value, else
\* the taker identifier when the trimmed, lower-cased side value is buy and the maker
\* identifier otherwise, else BUYER_LEI_HERE; the seller identifier likewise with sell and
\* SELLER_LEI_HERE; and Buyr and Sellr are built around these identifiers.
C23_IdentifiersResolvedInOrder ==
    \A i \in 1..Len(txs) :
        LET buyer == ResolvedInOrder(get_mapped_value("buyer_lei", df[i], field_mappings, constants),
                                     RoleIdentifier(df[i], "buy"), "BUYER_LEI_HERE")
            seller == ResolvedInOrder(get_mapped_value("seller_lei", df[i], field_mappings, constants),
                                      RoleIdentifier(df[i], "sell"), "SELLER_LEI_HERE")
        IN  /\ resolve_buyer_lei(df[i], field_mappings, constants) = buyer
            /\ resolve_seller_lei(df[i], field_mappings, constants) = seller
            /\ Kid(NewOf(i), "Buyr") =
                   party_block("Buyr", "buyer", "Counterparty Buyer", "investment",
                               buyer, df[i], field_mappings, constants)
            /\ Kid(NewOf(i), "Sellr") =
                   party_block("Sellr", "seller", "Counterparty Seller", "execution",
                               seller, df[i], field_mappings, constants)

\* the mapped transaction identifier of a row after upper-casing and removal of every
\* character that is not alphanumeric
CleanedTxId(row) ==
    FilterAlnum(StrUpper(get_mapped_value("transaction_id", row, field_mappings, constants)))

\* the identifiers the unmapped case can synthesize for a row: AUTOTXN, a clock reading
\* as fourteen digits, the row hash modulo 1000 as three digits
SynthesizedTxIds(row) ==
    { Prefix("AUTOTXN" \o StrfCompact(t) \o ThreeDigits(RowHash(hash_seed, row) % HashModulus),
             TxIdMaxLen) : t \in 0..MaxClock }

\* C24: in every record whose transaction_id is mapped to a value that is empty after
\* cleaning, TxId is an identifier synthesized from the clock and the row hash, as in the
\* unmapped case.
C24_EmptyMappedTxIdSynthesized ==
    \A i \in 1..Len(txs) :
        (has_mapping("transaction_id", field_mappings) /\ CleanedTxId(df[i]) = "")
            => Kid(NewOf(i), "TxId").text \in SynthesizedTxIds(df[i])

\* the reporting party of a row as the rule for ExctgPty names it: the mapped
\* reporting_party_lei value if the field is mapped, else the constants'
\* reporting_party_lei, else YOUR_FIRM_LEI_HERE
ReportingParty(row) ==
    IF has_mapping("reporting_party_lei", field_mappings)
    THEN get_mapped_value("reporting_party_lei", row, field_mappings, constants)
    ELSE DictGet(constants, "reporting_party_lei", "YOUR_FIRM_LEI_HERE")

\* C25: in every record built without a mapping of executing_party, ExctgPty has the text
\* of SubmitgPty, and that text is the reporting party of the row.
C25_ExecutingPartyIsSubmittingParty ==
    \A i \in 1..Len(txs) :
        ~has_mapping("executing_party", field_mappings)
            => /\ Kid(NewOf(i), "ExctgPty").text = Kid(NewOf(i), "SubmitgPty").text
               /\ Kid(NewOf(i), "ExctgPty").text = ReportingParty(df[i])

\* the Sngl element of a record whose FinInstrm has the Othr form
UnderlyingSngl(i) ==
    Kid(Kid(Kid(Kid(Kid(Kid(NewOf(i), "FinInstrm"), "Othr"), "DerivInstrmAttrbts"),
                "UndrlygInstrm"), "Othr"), "Sngl")

\* C26: in every record whose FinInstrm has the Othr form, Sngl holds one element: an
\* ISIN whose text is not blank, or an Id with the text UNKNOWN_INSTRUMENT.
C26_UnderlyingIsinNeverBlank ==
    \A i \in 1..Len(txs) :
        HasKid(Kid(NewOf(i), "FinInstrm"), "Othr")
            => /\ Len(UnderlyingSngl(i).kids) = 1
               /\ \/ /\ UnderlyingSngl(i).kids[1].tag = "ISIN"
                     /\ Strip(UnderlyingSngl(i).kids[1].text) # ""
                  \/ /\ UnderlyingSngl(i).kids[1].tag = "Id"
                     /\ UnderlyingSngl(i).kids[1].text = "UNKNOWN_INSTRUMENT"

\* a column name contains a synonym, letter case aside
ContainsToken(column, token) == StrIn(StrLower(token), StrLower(column))

\* the name match of a field is as stated: nothing for a field without a synonym list;
\* with a synonym contained in some column, the first column that contains the earliest
\* such synonym; otherwise a column of the highest similarity to a synonym if that
\* similarity is above 0.6, and nothing if none is
NameMatchAsStated(name, columns) ==
    IF name \notin DOMAIN mapping_patterns THEN name \notin DOMAIN suggestions
    ELSE LET tokens == mapping_patterns[name]
             contained == { p \in 1..Len(tokens) :
                                \E c \in 1..Len(columns) : ContainsToken(columns[c], tokens[p]) }
             pairs == (1..Len(tokens)) \X (1..Len(columns))
             similarity(pr) == ratio(StrLower(tokens[pr[1]]), StrLower(columns[pr[2]]))
         IN  IF contained # {}
             THEN LET earliest == CHOOSE p \in contained : \A q \in contained : p <= q
                      holders == { c \in 1..Len(columns) :
                                       ContainsToken(columns[c], tokens[earliest]) }
                  IN  /\ name \in DOMAIN suggestions
                      /\ suggestions[name] = columns[CHOOSE c \in holders : \A d \in holders : c <= d]
             ELSE IF \E pr \in pairs : AboveThreshold(similarity(pr))
             THEN /\ name \in DOMAIN suggestions
                  /\ \E pr \in pairs :
                         /\ suggestions[name] = columns[pr[2]]
                         /\ AboveThreshold(similarity(pr))
                         /\ \A other \in pairs : ~ScoreGreater(similarity(other), similarity(pr))
             ELSE name \notin DOMAIN suggestions

\* how many fields the name pass has gone through
FieldsMatched ==
    IF mapper_pc = "names" THEN cursor
    ELSE IF mapper_pc = "content" /\ cursor = 0 THEN Len(MIFIR_FIELD_ORDER)
    ELSE 0

\* C27: for every field the name pass has gone through, before any later pass has acted,
\* the suggestion is the name match as stated.
C27_NameMatchByTokenThenSimilarity ==
    \A k \in 1..FieldsMatched : NameMatchAsStated(MIFIR_FIELD_ORDER[k], stripped_columns(df))

\* the name pass is over on the dataset in which px_amount stands before Price: price_amount
\* went to Price, the first column with the first synonym, quantity to px_amount by its last
\* synonym, trading_venue to venu by similarity alone, seller_lei to nothing
C27_Witness ==
    /\ mapper_pc = "content" /\ cursor = 0
    /\ stripped_columns(df) = <<"trade_date", "Timestamp", "px_amount", "Price", "price_usd", "venu">>
    /\ {"price_amount", "quantity", "trading_venue"} \subseteq DOMAIN suggestions
    /\ suggestions["price_amount"] = "Price"
    /\ suggestions["quantity"] = "px_amount"
    /\ suggestions["trading_venue"] = "venu"
    /\ "seller_lei" \notin DOMAIN suggestions

\* the column the content pass looks at next, and its samples
NextContentColumn == raw_columns(df)[cursor + 1]

NextContentSamples == column_samples_get(df, NextContentColumn)

\* every sample of the column is shaped like an LEI, and there is one at least
LeiShapedSamples ==
    /\ NextContentSamples # <<>>
    /\ \A k \in 1..Len(NextContentSamples) : matches_lei_pattern(NextContentSamples[k])

\* one step of the content pass keeps every entry, adds at most one, and adds it for the
\* column it looks at
ContentStepAddsOnly ==
    /\ \A name \in DOMAIN suggestions :
           name \in DOMAIN suggestions' /\ suggestions'[name] = suggestions[name]
    /\ Cardinality(DOMAIN suggestions' \ DOMAIN suggestions) <= 1
    /\ \A name \in DOMAIN suggestions' \ DOMAIN suggestions :
           /\ suggestions'[name] = NextContentColumn
           /\ NextContentColumn \notin dict_values(suggestions)

\* one step of the content pass gives a column of LEI-shaped samples that no field is
\* mapped to yet to buyer_lei if that is unfilled, else to seller_lei if that is unfilled
ContentStepPlacesLei ==
    (LeiShapedSamples /\ NextContentColumn \notin dict_values(suggestions))
        => IF "buyer_lei" \notin DOMAIN suggestions
           THEN "buyer_lei" \in DOMAIN suggestions'
                    /\ suggestions'["buyer_lei"] = NextContentColumn
           ELSE IF "seller_lei" \notin DOMAIN suggestions
           THEN "seller_lei" \in DOMAIN suggestions'
                    /\ suggestions'["seller_lei"] = NextContentColumn
           ELSE suggestions' = suggestions

\* C28: every step of the content pass places a column of LEI-shaped samples, whether it
\* has one distinct sample or several, on buyer_lei or else seller_lei, changes no
\* existing entry and gives the column to one field at most.
C28_ContentPassPlacesLeiColumns ==
    [][mapper_pc = "content" => (ContentStepAddsOnly /\ ContentStepPlacesLei)]_vars

\* C29: at every moment, after whatever calls of add_custom_field, remove_custom_field and
\* import_custom_fields have returned, no two fields of the registry share a name.
C29_RegistryNamesUnique ==
    \A i \in 1..Len(custom_fields), j \in 1..Len(custom_fields) :
        i # j => custom_fields[i].name # custom_fields[j].name

\* the buyer and the seller of a row are both resolved by side inference: neither
\* buyer_lei nor seller_lei is mapped to a non-empty value, and the side, the taker and
\* the maker are mapped
BothBySideInference(row) ==
    /\ get_mapped_value("buyer_lei", row, field_mappings, constants) = ""
    /\ get_mapped_value("seller_lei", row, field_mappings, constants) = ""
    /\ has_mapping("taker_side_ordertype_sellorbuy", field_mappings)
    /\ has_mapping("fills_taker_user_id", field_mappings)
    /\ has_mapping("fills_maker_user_id", field_mappings)

\* the role column a party's identifier is read from, for a side value and the side that
\* makes the party the taker
RoleOf(side_value, taker_when) == IF side_value = taker_when THEN "taker" ELSE "maker"

\* the side value as _add_buyer and _add_seller read it
SideRead(row) ==
    StrLower(get_mapped_value("taker_side_ordertype_sellorbuy", row, field_mappings, constants))

\* C30: in every record whose buyer and seller are both resolved by side inference, one
\* of them is read from the taker column and the other from the maker column, whatever the
\* side value is.
C30_SidesComplementary ==
    \A i \in 1..Len(txs) :
        BothBySideInference(df[i])
            => /\ RoleOf(SideRead(df[i]), "buy") # RoleOf(SideRead(df[i]), "sell")
               /\ resolve_buyer_lei(df[i], field_mappings, constants) =
                      ResolvedInOrder("", IF RoleOf(SideRead(df[i]), "buy") = "taker"
                                          THEN get_mapped_value("fills_taker_user_id", df[i], field_mappings, constants)
                                          ELSE get_mapped_value("fills_maker_user_id", df[i], field_mappings, constants),
                                      "BUYER_LEI_HERE")
               /\ resolve_seller_lei(df[i], field_mappings, constants) =
                      ResolvedInOrder("", IF RoleOf(SideRead(df[i]), "buy") = "taker"
                                          THEN get_mapped_value("fills_maker_user_id", df[i], field_mappings, constants)
                                          ELSE get_mapped_value("fills_taker_user_id", df[i], field_mappings, constants),
                                      "SELLER_LEI_HERE")

====
